---- MODULE Spec2Model ----
(***************************************************************************)
(* The AI phone agent of backend/services/ai_phone_agent                    *)
(* (AI_PHONE_AGENT.md: stt.py, llm.py, tts.py, orchestrator.py, server.py). *)
(*                                                                         *)
(* One media-stream connection is modelled: the media_stream handler task, *)
(* the CallSession objects it creates, each session's recognizer receive   *)
(* task (StreamingSTT._listen, which runs _on_callee_done_speaking inside   *)
(* itself), and the synthesizer objects with their receive tasks.          *)
(* asyncio is cooperative: the code between two awaits is one atomic step, *)
(* so every action below is "resume at an await, run to the next await".   *)
(* Texts are sequences of one-character strings.                           *)
(***************************************************************************)
EXTENDS Integers, Sequences, FiniteSets, TLC

\* ---------------------------------------------------------------- bounds
\* A run is one session with a longer conversation, or a connection that sees
\* the start event again with a shorter one, or one session with a shorter
\* conversation and inbound audio: Init draws the limits.
MaxMsgs == 4         \* one session: messages the recognizer service sends
MaxCycles == 2       \* one session: utterance callbacks that pass the guard
MaxSessions == 2     \* restarts: CallSession objects the connection creates
MaxMsgsRestart == 2  \* restarts: messages the recognizer service sends
MaxCyclesRestart == 1 \* restarts: utterance callbacks that pass the guard
MaxAudio == 1        \* audio chunks the synthesizer service sends in a run
MaxRegs == 1         \* registration calls in a run
MaxMsgsStt == 4      \* scripted recognizer: messages the service sends
MaxFrames == 2       \* media events the transport delivers in a run with audio

\* ----------------------------------------------------------------- texts
Upper == <<"A","B","C","D","E","F","G","H","I","J","K","L","M",
           "N","O","P","Q","R","S","T","U","V","W","X","Y","Z">>
Lower == <<"a","b","c","d","e","f","g","h","i","j","k","l","m",
           "n","o","p","q","r","s","t","u","v","w","x","y","z">>

\* str.lower() on one character
LowerChar(c) ==
  IF \E i \in 1..26 : Upper[i] = c
  THEN Lower[CHOOSE i \in 1..26 : Upper[i] = c]
  ELSE c

\* str.lower()
ToLower(cs) == [i \in 1..Len(cs) |-> LowerChar(cs[i])]

\* `sub in text` of Python: sub occurs as a contiguous slice of text
Contains(text, sub) ==
  \E i \in 0..(Len(text) - Len(sub)) :
     \A j \in 1..Len(sub) : text[i + j] = sub[j]

IsSpace(c) == c = " "

RECURSIVE LStrip(_)
LStrip(cs) == IF cs # <<>> /\ IsSpace(Head(cs)) THEN LStrip(Tail(cs)) ELSE cs

RECURSIVE RStrip(_)
RStrip(cs) ==
  IF cs # <<>> /\ IsSpace(cs[Len(cs)]) THEN RStrip(SubSeq(cs, 1, Len(cs) - 1)) ELSE cs

\* str.strip()
Strip(cs) == RStrip(LStrip(cs))

RECURSIVE FirstWord(_)
\* the characters of cs up to its first whitespace (cs has no leading whitespace)
FirstWord(cs) ==
  IF cs = <<>> \/ IsSpace(Head(cs)) THEN <<>> ELSE <<Head(cs)>> \o FirstWord(Tail(cs))

\* whether str.split() of cs is the empty list
SplitIsEmpty(cs) == LStrip(cs) = <<>>

\* str.split()[0] (whitespace-separated first word), where split() is not empty
SplitFirst(cs) == FirstWord(LStrip(cs))

\* ------------------------------------------------- goodbye vocabulary
SIG_GOODBYE == <<"g","o","o","d","b","y","e">>
SIG_BYE == <<"b","y","e">>
SIG_GREAT_DAY == <<"h","a","v","e"," ","a"," ","g","r","e","a","t"," ","d","a","y">>
SIG_TAKE_CARE == <<"t","a","k","e"," ","c","a","r","e">>
SIG_TALK_SOON == <<"t","a","l","k"," ","s","o","o","n">>

signals == {SIG_GOODBYE, SIG_BYE, SIG_GREAT_DAY, SIG_TAKE_CARE, SIG_TALK_SOON}

\* the case-sensitive variant: text.lower() left out
IsGoodbye_nolower(text) == \E s \in signals : Contains(text, s)

\* CallSession._is_goodbye
IsGoodbye(text) == \E s \in signals : Contains(ToLower(text), s)

\* ------------------------------------------------------ model inputs
R_CHECK == <<"L","e","t"," ","m","e"," ","c","h","e","c","k",".">>
R_TALK_SOON == <<"O","k",","," ","T","a","l","k"," ","s","o","o","n","!">>
R_GOODBYE == <<"G","O","O","D","B","Y","E">>
R_BYE == <<"B","y","e",".">>
R_GREAT == <<"H","a","v","e"," ","a"," ","g","r","e","a","t"," ","d","a","y">>
R_CARE == <<"T","a","k","e"," ","C","a","r","e">>
R_BUY == <<"B","u","y"," ","n","o","w">>
R_GOOD == <<"G","o","o","d"," ","d","a","y">>
R_STANDBY == <<"O","n"," ","s","t","a","n","d","b","y",","," ","e","h">>

\* replies the language model may stream back in a response turn
Replies == {R_CHECK, R_TALK_SOON}

N_JOHN == <<"J","o","h","n"," ","S","m","i","t","h">>
N_THERE == <<"t","h","e","r","e">>
N_BLANK == <<" ">>
T_YES == <<"y","e","s">>
T_GO == <<"g","o">>
T_YE == <<"y","e">>
T_YES_GO == <<"Y","e","s",","," ","g","o"," ","a","h","e","a","d">>
T_OKAY_BYE == <<"O","k","a","y",","," ","b","y","e">>

S_HI == <<"H","i"," ">>
S_THIS_IS == <<","," ","t","h","i","s"," ","i","s"," ">>
S_CALLING_FROM == <<" ","c","a","l","l","i","n","g"," ","f","r","o","m"," ">>
S_MOMENT ==
  <<"."," ","D","o"," ","y","o","u"," ","h","a","v","e"," ","a"," ",
    "q","u","i","c","k"," ","m","o","m","e","n","t","?">>
A_ALEX == <<"A","l","e","x">>
O_OUR_OFFICE == <<"o","u","r"," ","o","f","f","i","c","e">>
O_DENTAL == <<"D","o","w","n","t","o","w","n"," ","D","e","n","t","a","l">>

\* the registration of the happy-path scenario
SpecJohn ==
  [action |-> "Confirm appointment Thursday 2pm", context |-> "Suite 200",
   callee_name |-> N_JOHN, agent_name |-> A_ALEX, organization |-> O_DENTAL]
\* RegisterCallRequest.spec is any dict: one without callee_name, one with a blank name
SpecNoName == [action |-> "Confirm appointment Thursday 2pm", context |-> "Suite 200"]
SpecBlankName ==
  [action |-> "Confirm appointment Thursday 2pm", context |-> "Suite 200",
   callee_name |-> N_BLANK, agent_name |-> A_ALEX, organization |-> O_DENTAL]

\* specifications a registration call may carry
RegSpecs == {SpecJohn, SpecNoName, SpecBlankName}
\* call_spec_id values: the one call.py registers, and one nobody registers
RegIds == {"abc123"}
StartIds == {"abc123", "zzz999"}

\* the fallback of media_stream without its callee_name
DefaultSpec_noname == [action |-> "No action specified", context |-> "No context provided"]

\* media_stream: the default of pending_calls.get
DefaultSpec ==
  [action |-> "No action specified", context |-> "No context provided",
   callee_name |-> N_THERE]

\* CallSession.start: the keys read with call_spec[...]
RequiredKeys == {"action", "context", "callee_name"}

\* dict.get(key, default)
Get(d, key, default) == IF key \in DOMAIN d THEN d[key] ELSE default

\* ConversationEngine.get_opening
GetOpening(callee_name, agent_name, org) ==
  S_HI \o SplitFirst(callee_name) \o S_THIS_IS \o agent_name
       \o S_CALLING_FROM \o org \o S_MOMENT

\* the opening line CallSession.start speaks for a specification
OpeningOf(spec) ==
  GetOpening(spec["callee_name"], Get(spec, "agent_name", A_ALEX),
             Get(spec, "organization", O_OUR_OFFICE))

\* messages the recognizer service may send (stt.py reads type, transcript, is_final)
SttMessages ==
  { [type |-> "Results", transcript |-> T_YES, is_final |-> TRUE],
    [type |-> "UtteranceEnd", transcript |-> <<>>, is_final |-> FALSE] }

\* ------------------------------------------------------------- state
\* the limits of a run
Limits ==
  { [conns |-> 1, sessions |-> 1, msgs |-> MaxMsgs, cycles |-> MaxCycles, frames |-> 0, regs |-> MaxRegs],
    [conns |-> 1, sessions |-> MaxSessions, msgs |-> MaxMsgsRestart, cycles |-> MaxCyclesRestart,
     frames |-> 0, regs |-> MaxRegs],
    [conns |-> 1, sessions |-> 1, msgs |-> MaxMsgsRestart, cycles |-> MaxCyclesRestart,
     frames |-> MaxFrames, regs |-> MaxRegs] }

VARIABLES
  lim,            \* the limits of this run (never changes)
  pending_calls,  \* server.pending_calls: call_spec_id -> spec
  nregs,          \* registration calls so far (bounded by lim.regs)
  \* per connection c (one media_stream task each):
  hpc,            \* where the media_stream handler task is suspended
  session,        \* media_stream's local `session` (0: None)
  htts,           \* _speak's local `tts` (index into ttss; 0: none yet)
  raised,         \* the exception media_stream's except branch caught ("none")
  hsecond,        \* the handler's running end() began after an end() had completed
  tin,            \* media events the transport has delivered and media_stream has not read
  nframes,        \* media events the transport has delivered so far
  \* shared by the process:
  sessions,       \* the CallSession objects, in creation order
  ttss,           \* the StreamingTTS objects, in creation order
  cycles,         \* the _on_callee_done_speaking calls that passed the guard
  nmsgs,          \* messages the recognizer service has sent
  outbound,       \* media messages sent to the transport (_send_audio_to_twilio)
  \* the organization editor (useNexusState):
  departments,    \* the departments, each with the ids of its people, in order
  connections,    \* the connections, in order
  \* the transcript upload modal (TranscriptUploadModal):
  uploadedFiles,  \* the uploaded files with their status, in order
  step,           \* the modal's step
  requests,       \* filename -> processing requests in flight for a Process click
  processAll      \* the handleProcessAll call: where it is suspended, its snapshot

\* the telephone service
service == <<lim, pending_calls, nregs, hpc, session, htts, raised, hsecond,
             sessions, ttss, cycles, nmsgs, tin, nframes, outbound>>

\* the organization editor
editor == <<departments, connections>>

\* the transcript upload modal
modal == <<uploadedFiles, step, requests, processAll>>

vars == <<service, editor, modal>>

\* the media_stream handler tasks: one per connection of a run
Conns == 1..lim.conns
Sess == DOMAIN sessions
Tts == DOMAIN ttss
Cyc == DOMAIN cycles

\* CallSession.__init__ (with the recognizer and response engine it constructs)
NewSession(c, spec, found_id, reg) ==
  [ conn |-> c,        \* the connection whose handler constructed it (its self.ws)
    is_active |-> TRUE, is_speaking |-> FALSE, tts |-> 0, call_spec |-> spec,
    stt_ws |-> "none", listen_task |-> "none", current_text |-> <<>>,
    inbox |-> <<>>,      \* messages received on stt.ws and not yet read by _listen
    fwd |-> <<>>,        \* media frames sent on stt.ws (send_audio), in order
    messages |-> <<>>,   \* llm.messages
    lwait |-> 0,         \* the callback _listen is awaiting (0: at `async for`)
    \* bookkeeping of the model, read by no action:
    spec_id |-> found_id,\* the registry key this spec was read from ("": default)
    reg |-> reg,         \* registration calls made when it was read (0: default)
    ignored |-> 0,       \* callbacks that returned at the is_active guard
    log |-> <<>>,        \* the messages _listen has read, in order
    fault |-> "none",    \* the failure a service of this session has had
    ended |-> FALSE ]    \* an end() call on this session has returned

\* StreamingTTS.__init__
NewTts(s) ==
  [ s |-> s, ws |-> "none", listen_task |-> "none", sent |-> <<>>,
    \* bookkeeping: the audio chunks the receive task has read (byte lengths)
    chunks |-> <<>> ]

\* the organization editor after construction, with departments ds loaded:
\* useState(connections) finds no stored connections
InitEditor(ds) ==
  /\ departments = ds
  /\ connections = <<>>

\* handleProcessAll is not running
NotProcessingAll == [pc |-> "idle", snap |-> <<>>, i |-> 0]

MaxFiles == 2        \* upload modal: files of one upload
MaxRequests == 2     \* upload modal: requests in flight for Process clicks

\* the names the server gives to uploaded files
Filenames == 1..MaxFiles

\* the transcript upload modal after construction
InitModal ==
  /\ uploadedFiles = <<>>
  /\ step = "upload"
  /\ requests = [f \in Filenames |-> 0]
  /\ processAll = NotProcessingAll

\* the telephone service after construction, for a run with limits l
InitService(l) ==
  /\ lim = l
  /\ pending_calls = <<>>
  /\ nregs = 0
  /\ hpc = [c \in Conns |-> "recv"]
  /\ session = [c \in Conns |-> 0]
  /\ htts = [c \in Conns |-> 0]
  /\ raised = [c \in Conns |-> "none"]
  /\ hsecond = [c \in Conns |-> FALSE]
  /\ sessions = <<>>
  /\ ttss = <<>>
  /\ cycles = <<>>
  /\ nmsgs = 0
  /\ tin = [c \in Conns |-> <<>>]
  /\ nframes = [c \in Conns |-> 0]
  /\ outbound = 0

\* the state after construction, for a run with limits l
InitOf(l) == InitService(l) /\ InitEditor(<<>>) /\ InitModal

Init == \E l \in Limits : InitOf(l)

\* ------------------------------------------------ connections and tasks
\* websockets close() that restarts the closing handshake on any connection
WsClose_reopen(w) == IF w = "none" THEN w ELSE "closing"

\* `if self.ws: await self.ws.close()` at the call: an open connection starts closing
WsClose(w) == IF w = "open" THEN "closing" ELSE w

\* the same when close() has returned
WsClosed(w) == IF w = "none" THEN "none" ELSE "closed"

\* `if self._listen_task: self._listen_task.cancel()`
Cancel(t) == IF t = "running" THEN "cancelled" ELSE t

\* a cancel() that leaves the awaited callback running
CyclesAfterCancel_detached(s) == cycles

\* a cancelled receive task abandons the callback it is awaiting
CyclesAfterCancel(s) ==
  [k \in Cyc |->
     IF sessions[s].listen_task = "running" /\ k = sessions[s].lwait
     THEN [cycles[k] EXCEPT !.pc = "cancelled"]
     ELSE cycles[k]]

\* an end() that shuts every session of the process down
EndEnter_all(ss, s) ==
  [x \in DOMAIN ss |-> [ss[x] EXCEPT !.is_active = FALSE, !.stt_ws = WsClose(@)]]

\* CallSession.end up to its first await (stt.close -> ws.close)
EndEnter(ss, s) ==
  [ss EXCEPT ![s].is_active = FALSE, ![s].stt_ws = WsClose(@)]

\* CallSession.cleanup, as the finally of connection c runs it on session s of ss
Cleanup(c, ss, s) ==
  IF s # 0 /\ ss[s].is_active
  THEN /\ sessions' = EndEnter(ss, s)
       /\ hsecond' = [hsecond EXCEPT ![c] = ss[s].ended]
       /\ hpc' = [hpc EXCEPT ![c] = "end_stt"]
  ELSE /\ sessions' = ss
       /\ hsecond' = hsecond
       /\ hpc' = [hpc EXCEPT ![c] = "closed"]

\* ------------------------------------------------------- registration
\* a registry that keeps the first specification stored under an id
RegisterCall_first(id, spec) ==
  /\ nregs < lim.regs
  /\ nregs' = nregs + 1
  /\ pending_calls' = [k \in DOMAIN pending_calls \cup {id} |->
                         IF k \in DOMAIN pending_calls THEN pending_calls[k] ELSE spec]
  /\ UNCHANGED <<editor, modal, lim, tin, nframes, hpc, session, htts, raised, hsecond, sessions,
                 ttss, cycles, nmsgs, outbound>>

\* register_call / register_call_spec
RegisterCall(id, spec) ==
  /\ nregs < lim.regs
  /\ nregs' = nregs + 1
  /\ pending_calls' = [k \in DOMAIN pending_calls \cup {id} |->
                         IF k = id THEN spec ELSE pending_calls[k]]
  /\ UNCHANGED <<editor, modal, lim, tin, nframes, hpc, session, htts, raised, hsecond, sessions,
                 ttss, cycles, nmsgs, outbound>>

\* --------------------------------------------- media_stream: start event
\* event == "start": look the spec up, construct the session, start() to stt.start()
HStart(c, id) ==
  /\ hpc[c] = "recv"
  /\ tin[c] = <<>>
  /\ Len(sessions) < lim.sessions
  /\ LET found == id \in DOMAIN pending_calls
         spec == IF found THEN pending_calls[id] ELSE DefaultSpec
         s == Len(sessions) + 1
         ss == Append(sessions, NewSession(c, spec, IF found THEN id ELSE "",
                                                    IF found THEN nregs ELSE 0))
     IN /\ session' = [session EXCEPT ![c] = s]
        /\ IF RequiredKeys \subseteq DOMAIN spec
           THEN /\ sessions' = ss
                /\ hpc' = [hpc EXCEPT ![c] = "start_stt"]
                /\ UNCHANGED <<raised, hsecond>>
           ELSE /\ raised' = [raised EXCEPT ![c] = "KeyError"]
                /\ Cleanup(c, ss, s)
  /\ UNCHANGED <<editor, modal, lim, tin, nframes, pending_calls, nregs, htts, ttss, cycles, nmsgs,
                 outbound>>

\* stt.start() returns; get_opening; _speak up to tts.connect()
HSttStarted(c) ==
  /\ hpc[c] = "start_stt"
  /\ LET s == session[c]
         ss == [sessions EXCEPT ![s].stt_ws = "open", ![s].listen_task = "running"]
     IN IF SplitIsEmpty(sessions[s].call_spec["callee_name"])
        THEN /\ raised' = [raised EXCEPT ![c] = "IndexError"]
             /\ Cleanup(c, ss, s)
             /\ UNCHANGED <<htts, ttss>>
        ELSE /\ sessions' = [ss EXCEPT ![s].is_speaking = TRUE]
             /\ ttss' = Append(ttss, NewTts(s))
             /\ htts' = [htts EXCEPT ![c] = Len(ttss) + 1]
             /\ hpc' = [hpc EXCEPT ![c] = "sp_connect"]
             /\ UNCHANGED <<raised, hsecond>>
  /\ UNCHANGED <<editor, modal, lim, tin, nframes, pending_calls, nregs, session, cycles, nmsgs,
                 outbound>>

\* _speak: websockets.connect returned inside tts.connect(); the init message is sent
HSpConnect(c) ==
  /\ hpc[c] = "sp_connect"
  /\ ttss' = [ttss EXCEPT ![htts[c]].ws = "open"]
  /\ hpc' = [hpc EXCEPT ![c] = "sp_init"]
  /\ UNCHANGED <<editor, modal, lim, tin, nframes, pending_calls, nregs, session, htts, raised,
                 hsecond, sessions, cycles, nmsgs, outbound>>

\* _speak: tts.connect() creates the receive task and returns; send_text(text)
HSpInit(c) ==
  /\ hpc[c] = "sp_init"
  /\ ttss' = [ttss EXCEPT
       ![htts[c]].listen_task = "running",
       ![htts[c]].sent = Append(@, OpeningOf(sessions[session[c]].call_spec))]
  /\ hpc' = [hpc EXCEPT ![c] = "sp_send"]
  /\ UNCHANGED <<editor, modal, lim, tin, nframes, pending_calls, nregs, session, htts, raised,
                 hsecond, sessions, cycles, nmsgs, outbound>>

\* _speak: send_text returned; flush() returned; asyncio.sleep(0.5)
\* (the two awaits change nothing between them and are one suspension here)
HSpSend(c) ==
  /\ hpc[c] = "sp_send"
  /\ hpc' = [hpc EXCEPT ![c] = "sp_settle"]
  /\ UNCHANGED <<editor, modal, lim, tin, nframes, pending_calls, nregs, session, htts, raised,
                 hsecond, sessions, ttss, cycles, nmsgs, outbound>>

\* _speak: the sleep is over; is_speaking = False; tts.close()
HSpSettle(c) ==
  /\ hpc[c] = "sp_settle"
  /\ sessions' = [sessions EXCEPT ![session[c]].is_speaking = FALSE]
  /\ ttss' = [ttss EXCEPT ![htts[c]].ws = WsClose(@)]
  /\ hpc' = [hpc EXCEPT ![c] = "sp_close"]
  /\ UNCHANGED <<editor, modal, lim, tin, nframes, pending_calls, nregs, session, htts, raised,
                 hsecond, cycles, nmsgs, outbound>>

\* _speak: ws.close() returned; the task is cancelled; the opening is recorded;
\* start() returns and media_stream goes back to iter_text
HSpClose(c) ==
  /\ hpc[c] = "sp_close"
  /\ ttss' = [ttss EXCEPT ![htts[c]].ws = WsClosed(@),
                          ![htts[c]].listen_task = Cancel(@)]
  /\ sessions' = [sessions EXCEPT ![session[c]].messages =
                    Append(@, [role |-> "assistant",
                               content |-> OpeningOf(sessions[session[c]].call_spec)])]
  /\ hpc' = [hpc EXCEPT ![c] = "recv"]
  /\ UNCHANGED <<editor, modal, lim, tin, nframes, pending_calls, nregs, session, htts, raised,
                 hsecond, cycles, nmsgs, outbound>>

\* ----------------------------------- media_stream: media, stop, disconnect
\* a transport that keeps an arriving event only while the handler is reading
Buffered_busy(c, f) == IF hpc[c] = "recv" THEN Append(tin[c], f) ELSE tin[c]

\* the socket keeps an arriving event until iter_text yields it
Buffered(c, f) == Append(tin[c], f)

\* the transport delivers a media event after the start event
FrameArrives(c) ==
  /\ session[c] # 0
  /\ hpc[c] \notin {"end_stt", "end_tts", "closed"}
  /\ nframes[c] < lim.frames
  /\ nframes' = [nframes EXCEPT ![c] = @ + 1]
  /\ tin' = [tin EXCEPT ![c] = Buffered(c, nframes[c] + 1)]
  /\ UNCHANGED <<editor, modal, lim, pending_calls, nregs, hpc, session, htts, raised, hsecond,
                 sessions, ttss, cycles, nmsgs, outbound>>

\* send_audio that never reaches ws.send
SendAudio_never(w) == IF w = "open" \/ w = "none" THEN "dropped" ELSE "raises"

\* StreamingSTT.send_audio on connection state w: "sent", "dropped" or "raises"
SendAudio(w) ==
  IF w = "none" THEN "dropped"       \* `if self.ws` is false
  ELSE IF w = "open" THEN "sent"
  ELSE "raises"                      \* ws.send on a closing or closed connection

\* event == "media" and session: receive_audio -> stt.send_audio -> ws.send
HMedia(c) ==
  /\ hpc[c] = "recv"
  /\ session[c] # 0
  /\ tin[c] # <<>>
  /\ tin' = [tin EXCEPT ![c] = Tail(@)]
  /\ LET s == session[c]
         out == SendAudio(sessions[s].stt_ws)
     IN IF out = "raises"
        THEN \* ConnectionClosed leaves the loop: except, then finally
             /\ raised' = [raised EXCEPT ![c] = "ConnectionClosed"]
             /\ Cleanup(c, sessions, s)
        ELSE /\ sessions' = [sessions EXCEPT ![s].fwd =
                               IF out = "sent" THEN Append(@, Head(tin[c])) ELSE @]
             /\ UNCHANGED <<hpc, raised, hsecond>>
  /\ UNCHANGED <<editor, modal, lim, nframes, pending_calls, nregs, session, htts, ttss, cycles,
                 nmsgs, outbound>>

\* event == "stop": session.end() if there is a session, then break
HStop(c) ==
  /\ hpc[c] = "recv"
  /\ tin[c] = <<>>
  /\ IF session[c] # 0
     THEN /\ sessions' = EndEnter(sessions, session[c])
          /\ hsecond' = [hsecond EXCEPT ![c] = sessions[session[c]].ended]
          /\ hpc' = [hpc EXCEPT ![c] = "end_stt"]
     ELSE /\ hpc' = [hpc EXCEPT ![c] = "closed"]
          /\ UNCHANGED <<sessions, hsecond>>
  /\ UNCHANGED <<editor, modal, lim, tin, nframes, pending_calls, nregs, session, htts, raised, ttss,
                 cycles, nmsgs, outbound>>

\* the transport disconnects: iter_text ends, finally runs cleanup()
HDisconnect(c) ==
  /\ hpc[c] = "recv"
  /\ tin[c] = <<>>
  /\ Cleanup(c, sessions, session[c])
  /\ UNCHANGED <<editor, modal, lim, tin, nframes, pending_calls, nregs, session, htts, raised, ttss,
                 cycles, nmsgs, outbound>>

\* end(): stt.close()'s ws.close() returned; the receive task is cancelled;
\* `if self.tts: await self.tts.close()`
HEndStt(c) ==
  /\ hpc[c] = "end_stt"
  /\ LET s == session[c]
         t == sessions[s].tts
     IN /\ sessions' = [sessions EXCEPT ![s].stt_ws = WsClosed(@),
                                        ![s].listen_task = Cancel(@),
                                        ![s].lwait = IF sessions[s].listen_task = "running"
                                                     THEN 0 ELSE @,
                                        ![s].ended = IF t = 0 THEN TRUE ELSE @]
        /\ cycles' = CyclesAfterCancel(s)
        /\ IF t # 0
           THEN /\ ttss' = [ttss EXCEPT ![t].ws = WsClose(@)]
                /\ hpc' = [hpc EXCEPT ![c] = "end_tts"]
           ELSE /\ hpc' = [hpc EXCEPT ![c] = "closed"]
                /\ UNCHANGED ttss
  /\ UNCHANGED <<editor, modal, lim, tin, nframes, pending_calls, nregs, session, htts, raised,
                 hsecond, nmsgs, outbound>>

\* end(): tts.close()'s ws.close() returned; its task is cancelled; the handler returns
HEndTts(c) ==
  /\ hpc[c] = "end_tts"
  /\ LET s == session[c]
         t == sessions[s].tts
     IN /\ ttss' = [ttss EXCEPT ![t].ws = WsClosed(@), ![t].listen_task = Cancel(@)]
        /\ sessions' = [sessions EXCEPT ![s].ended = TRUE]
  /\ hpc' = [hpc EXCEPT ![c] = "closed"]
  /\ UNCHANGED <<editor, modal, lim, tin, nframes, pending_calls, nregs, session, htts, raised,
                 hsecond, cycles, nmsgs, outbound>>

\* ------------------------------------------------ StreamingSTT._listen
\* the recognizer service sends a message on the session's connection
SttSend(s, m) ==
  /\ sessions[s].stt_ws = "open"
  /\ nmsgs < lim.msgs
  /\ nmsgs' = nmsgs + 1
  /\ sessions' = [sessions EXCEPT ![s].inbox = Append(@, m)]
  /\ UNCHANGED <<editor, modal, lim, tin, nframes, pending_calls, nregs, hpc, session, htts, raised, hsecond,
                 ttss, cycles, outbound>>

\* _listen is at `async for msg in self.ws` with a message to read
ListenReads(s, type) ==
  /\ sessions[s].listen_task = "running"
  /\ sessions[s].lwait = 0
  /\ sessions[s].inbox # <<>>
  /\ Head(sessions[s].inbox).type = type

\* a recognizer client that accumulates interim results as well
Accumulates_interim(m) == m.transcript # <<>>

\* `if transcript and is_final`
Accumulates(m) == m.transcript # <<>> /\ m.is_final

\* msg_type == "Results": a final, non-empty transcript is accumulated
ListenResults(s) ==
  /\ ListenReads(s, "Results")
  /\ LET m == Head(sessions[s].inbox)
     IN sessions' = [sessions EXCEPT
          ![s].inbox = Tail(@),
          ![s].log = Append(@, m),
          ![s].current_text = IF Accumulates(m)
                              THEN @ \o <<" ">> \o m.transcript
                              ELSE @]
  /\ UNCHANGED <<editor, modal, lim, tin, nframes, pending_calls, nregs, hpc, session, htts, raised, hsecond,
                 ttss, cycles, nmsgs, outbound>>

\* _listen runs the callback as a task of its own instead of awaiting it
AwaitsCallback_spawn == FALSE

\* `await self.on_utterance_end(text)`: _listen reads no message until it returns
AwaitsCallback == TRUE

\* the guard of _on_callee_done_speaking left out
PassesGuard_none(s) == TRUE

\* `if not self.is_active: return`
PassesGuard(s) == sessions[s].is_active

\* a recognizer client that calls back at every utterance boundary
HasText_always(text) == TRUE

\* `if text:` on the stripped text
HasText(text) == text # <<>>

\* msg_type == "UtteranceEnd": the accumulated text, stripped, goes to
\* _on_callee_done_speaking, which runs up to tts.connect()'s websockets.connect
ListenUtteranceEnd(s) ==
  /\ ListenReads(s, "UtteranceEnd")
  /\ LET text == Strip(sessions[s].current_text)
         ss == [sessions EXCEPT ![s].inbox = Tail(@), ![s].current_text = <<>>,
                                ![s].log = Append(@, Head(sessions[s].inbox))]
         k == Len(cycles) + 1
         t == Len(ttss) + 1
     IN IF HasText(text) /\ PassesGuard(s)
        THEN /\ Len(cycles) < lim.cycles
             /\ sessions' = [ss EXCEPT ![s].is_speaking = TRUE,
                                      ![s].lwait = IF AwaitsCallback THEN k ELSE 0]
             /\ ttss' = Append(ttss, NewTts(s))
             /\ cycles' = Append(cycles,
                  [s |-> s, pc |-> "connect", text |-> text, tts |-> t,
                   response |-> <<>>,
                   \* the place of this utterance boundary among the messages read
                   at |-> Len(sessions[s].log) + 1,
                   \* the place of the callee turn in llm.messages (0: not appended)
                   turn |-> 0,
                   \* calls of the model's streaming endpoint made for this turn
                   calls |-> 0,
                   \* media events delivered before the callback was entered
                   f0 |-> nframes[sessions[s].conn],
                   \* is_speaking as the callback found it
                   over |-> sessions[s].is_speaking])
        ELSE /\ sessions' = [ss EXCEPT ![s].ignored =
                               IF HasText(text) THEN @ + 1 ELSE @]
             /\ UNCHANGED <<ttss, cycles>>
  /\ UNCHANGED <<editor, modal, lim, tin, nframes, pending_calls, nregs, hpc, session, htts, raised, hsecond,
                 nmsgs, outbound>>

\* `async for` ends with ConnectionClosed once the queue is drained: _listen returns
ListenClosed(s) ==
  /\ sessions[s].listen_task = "running"
  /\ sessions[s].lwait = 0
  /\ sessions[s].inbox = <<>>
  /\ sessions[s].stt_ws \in {"closing", "closed"}
  /\ sessions' = [sessions EXCEPT ![s].listen_task = "finished"]
  /\ UNCHANGED <<editor, modal, lim, tin, nframes, pending_calls, nregs, hpc, session, htts, raised, hsecond,
                 ttss, cycles, nmsgs, outbound>>

\* ------------------------------- CallSession._on_callee_done_speaking
\* the callback returns to its caller
Returned(ss, k) ==
  [ss EXCEPT ![cycles[k].s].lwait = IF @ = k THEN 0 ELSE @]

\* websockets.connect returned inside tts.connect(); the init message is sent
CycleConnect(k) ==
  /\ cycles[k].pc = "connect"
  /\ ttss' = [ttss EXCEPT ![cycles[k].tts].ws = "open"]
  /\ cycles' = [cycles EXCEPT ![k].pc = "init"]
  /\ UNCHANGED <<editor, modal, lim, tin, nframes, pending_calls, nregs, hpc, session, htts, raised, hsecond,
                 sessions, nmsgs, outbound>>

\* a history that takes the callee turn at its front
CalleeTurn_front(msgs, text) == <<[role |-> "user", content |-> text]>> \o msgs

\* stream_response: self.messages.append({"role": "user", "content": callee_said})
CalleeTurn(msgs, text) == Append(msgs, [role |-> "user", content |-> text])

\* connect() creates the receive task and returns; self.tts = tts;
\* stream_response appends the callee turn and opens the model stream
CycleInit(k) ==
  /\ cycles[k].pc = "init"
  /\ ttss' = [ttss EXCEPT ![cycles[k].tts].listen_task = "running"]
  /\ sessions' = [sessions EXCEPT
       ![cycles[k].s].tts = cycles[k].tts,
       ![cycles[k].s].messages = CalleeTurn(@, cycles[k].text)]
  /\ cycles' = [cycles EXCEPT ![k].pc = "stream", ![k].calls = @ + 1,
                               ![k].turn = Len(sessions[cycles[k].s].messages) + 1]
  /\ UNCHANGED <<editor, modal, lim, tin, nframes, pending_calls, nregs, hpc, session, htts, raised, hsecond,
                 nmsgs, outbound>>

\* the model stream ends with reply r (its sentences went to tts.send_text);
\* the agent turn is appended; tts.flush() returns; asyncio.sleep(0.5)
CycleStream(k, r) ==
  /\ cycles[k].pc = "stream"
  /\ ttss' = [ttss EXCEPT ![cycles[k].tts].sent = Append(@, r)]
  /\ sessions' = [sessions EXCEPT
       ![cycles[k].s].messages = Append(@, [role |-> "assistant", content |-> r])]
  /\ cycles' = [cycles EXCEPT ![k].pc = "settle", ![k].response = r]
  /\ UNCHANGED <<editor, modal, lim, tin, nframes, pending_calls, nregs, hpc, session, htts, raised, hsecond,
                 nmsgs, outbound>>

\* the sleep is over; is_speaking = False; tts.close()
CycleSettle(k) ==
  /\ cycles[k].pc = "settle"
  /\ sessions' = [sessions EXCEPT ![cycles[k].s].is_speaking = FALSE]
  /\ ttss' = [ttss EXCEPT ![cycles[k].tts].ws = WsClose(@)]
  /\ cycles' = [cycles EXCEPT ![k].pc = "close"]
  /\ UNCHANGED <<editor, modal, lim, tin, nframes, pending_calls, nregs, hpc, session, htts, raised, hsecond,
                 nmsgs, outbound>>

\* tts.close() returned; `if self._is_goodbye(response)`: sleep(1.5), else return
CycleClose(k) ==
  /\ cycles[k].pc = "close"
  /\ ttss' = [ttss EXCEPT ![cycles[k].tts].ws = WsClosed(@),
                          ![cycles[k].tts].listen_task = Cancel(@)]
  /\ IF IsGoodbye(cycles[k].response)
     THEN /\ cycles' = [cycles EXCEPT ![k].pc = "grace"]
          /\ UNCHANGED sessions
     ELSE /\ cycles' = [cycles EXCEPT ![k].pc = "done"]
          /\ sessions' = Returned(sessions, k)
  /\ UNCHANGED <<editor, modal, lim, tin, nframes, pending_calls, nregs, hpc, session, htts, raised, hsecond,
                 nmsgs, outbound>>

\* the grace sleep is over; end() up to stt.close()'s ws.close()
CycleGrace(k) ==
  /\ cycles[k].pc = "grace"
  /\ sessions' = EndEnter(sessions, cycles[k].s)
  /\ cycles' = [cycles EXCEPT ![k].pc = "end_stt"]
  /\ UNCHANGED <<editor, modal, lim, tin, nframes, pending_calls, nregs, hpc, session, htts, raised, hsecond,
                 ttss, nmsgs, outbound>>

\* end() inside the callback: ws.close() returned; _listen_task.cancel() is a
\* cancel of the running task itself, delivered at its next suspension: inside
\* tts.close() (self.tts is already closed there) or back at `async for`.
\* Either way the state is the one after end().
CycleEndStt(k) ==
  /\ cycles[k].pc = "end_stt"
  /\ LET s == cycles[k].s
         t == sessions[s].tts
     IN /\ sessions' = [sessions EXCEPT ![s].stt_ws = WsClosed(@),
                                        ![s].listen_task = Cancel(@),
                                        ![s].lwait = 0,
                                        ![s].ended = TRUE]
        /\ ttss' = IF t # 0
                   THEN [ttss EXCEPT ![t].ws = WsClosed(WsClose(@)),
                                     ![t].listen_task = Cancel(@)]
                   ELSE ttss
  /\ cycles' = [cycles EXCEPT ![k].pc = "done"]
  /\ UNCHANGED <<editor, modal, lim, tin, nframes, pending_calls, nregs, hpc, session, htts, raised, hsecond,
                 nmsgs, outbound>>

\* ------------------------------------------------ StreamingTTS._listen
\* an audio message arrives: on_audio_chunk -> _send_audio_to_twilio -> ws.send_text
TtsAudio(t) ==
  /\ ttss[t].listen_task = "running"
  /\ ttss[t].ws \in {"open", "closing"}
  /\ outbound < MaxAudio
  /\ IF hpc[sessions[ttss[t].s].conn] = "closed"
     THEN \* the transport socket is gone: send_text raises inside the task
          /\ ttss' = [ttss EXCEPT ![t].listen_task = "failed"]
          /\ UNCHANGED outbound
     ELSE /\ outbound' = outbound + 1
          /\ UNCHANGED ttss
  /\ UNCHANGED <<editor, modal, lim, tin, nframes, pending_calls, nregs, hpc, session, htts, raised, hsecond,
                 sessions, cycles, nmsgs>>

\* data.get("isFinal"): break
TtsFinal(t) ==
  /\ ttss[t].listen_task = "running"
  /\ ttss[t].ws = "open"
  /\ ttss' = [ttss EXCEPT ![t].listen_task = "finished"]
  /\ UNCHANGED <<editor, modal, lim, tin, nframes, pending_calls, nregs, hpc, session, htts, raised, hsecond,
                 sessions, cycles, nmsgs, outbound>>

\* ConnectionClosed ends `async for`
TtsClosed(t) ==
  /\ ttss[t].listen_task = "running"
  /\ ttss[t].ws \in {"closing", "closed"}
  /\ ttss' = [ttss EXCEPT ![t].listen_task = "finished"]
  /\ UNCHANGED <<editor, modal, lim, tin, nframes, pending_calls, nregs, hpc, session, htts, raised, hsecond,
                 sessions, cycles, nmsgs, outbound>>

\* ------------------------------------------------------ specification
Next ==
  \/ \E id \in RegIds, spec \in RegSpecs : RegisterCall(id, spec)
  \/ \E c \in Conns, id \in StartIds : HStart(c, id)
  \/ \E c \in Conns : HSttStarted(c)
  \/ \E c \in Conns : HSpConnect(c)
  \/ \E c \in Conns : HSpInit(c)
  \/ \E c \in Conns : HSpSend(c)
  \/ \E c \in Conns : HSpSettle(c)
  \/ \E c \in Conns : HSpClose(c)
  \/ \E c \in Conns : FrameArrives(c)
  \/ \E c \in Conns : HMedia(c)
  \/ \E c \in Conns : HStop(c)
  \/ \E c \in Conns : HDisconnect(c)
  \/ \E c \in Conns : HEndStt(c)
  \/ \E c \in Conns : HEndTts(c)
  \/ \E s \in Sess, m \in SttMessages : SttSend(s, m)
  \/ \E s \in Sess : ListenResults(s)
  \/ \E s \in Sess : ListenUtteranceEnd(s)
  \/ \E s \in Sess : ListenClosed(s)
  \/ \E k \in Cyc : CycleConnect(k)
  \/ \E k \in Cyc : CycleInit(k)
  \/ \E k \in Cyc, r \in Replies : CycleStream(k, r)
  \/ \E k \in Cyc : CycleSettle(k)
  \/ \E k \in Cyc : CycleClose(k)
  \/ \E k \in Cyc : CycleGrace(k)
  \/ \E k \in Cyc : CycleEndStt(k)
  \/ \E t \in Tts : TtsAudio(t)
  \/ \E t \in Tts : TtsFinal(t)
  \/ \E t \in Tts : TtsClosed(t)

Spec == Init /\ [][Next]_vars

\* ------------------------------------------- the happy-path scenario
\* what the recognizer sends in the scenario: the callee says "Yes, go ahead",
\* and after the reply "Okay, bye"
HappyScript ==
  << [type |-> "Results", transcript |-> T_YES_GO, is_final |-> TRUE],
     [type |-> "UtteranceEnd", transcript |-> <<>>, is_final |-> FALSE],
     [type |-> "Results", transcript |-> T_OKAY_BYE, is_final |-> TRUE],
     [type |-> "UtteranceEnd", transcript |-> <<>>, is_final |-> FALSE] >>

LimitsHappy ==
  { [conns |-> 1, sessions |-> 1, msgs |-> Len(HappyScript), cycles |-> MaxCycles,
     frames |-> 0, regs |-> MaxRegs] }

InitHappy == \E l \in LimitsHappy : InitOf(l)

\* the registration, then the start event with the registered id, the scripted
\* recognizer, any reply of the model, and the stop event
NextHappy ==
  \/ RegisterCall("abc123", SpecJohn)
  \/ (nregs = 1 /\ HStart(1, "abc123"))
  \/ HSttStarted(1)
  \/ HSpConnect(1)
  \/ HSpInit(1)
  \/ HSpSend(1)
  \/ HSpSettle(1)
  \/ HSpClose(1)
  \/ HStop(1)
  \/ HEndStt(1)
  \/ HEndTts(1)
  \/ \E s \in Sess : SttSend(s, HappyScript[nmsgs + 1])
  \/ \E s \in Sess : ListenResults(s)
  \/ \E s \in Sess : ListenUtteranceEnd(s)
  \/ \E s \in Sess : ListenClosed(s)
  \/ \E k \in Cyc : CycleConnect(k)
  \/ \E k \in Cyc : CycleInit(k)
  \/ \E k \in Cyc, r \in Replies : CycleStream(k, r)
  \/ \E k \in Cyc : CycleSettle(k)
  \/ \E k \in Cyc : CycleClose(k)
  \/ \E k \in Cyc : CycleGrace(k)
  \/ \E k \in Cyc : CycleEndStt(k)
  \/ \E t \in Tts : TtsAudio(t)
  \/ \E t \in Tts : TtsFinal(t)
  \/ \E t \in Tts : TtsClosed(t)

SpecHappy == InitHappy /\ [][NextHappy]_vars

\* ------------------------------------------------- failing services
\* no service has failed yet in this run
NoFault == \A s \in Sess : sessions[s].fault = "none"

\* the exception leaves session.start(): media_stream's `except Exception`
\* logs it and the finally runs cleanup()
HandlerRaises(c, ss, exc) ==
  /\ raised' = [raised EXCEPT ![c] = exc]
  /\ Cleanup(c, ss, session[c])

\* stt.start(): websockets.connect raises; stt.ws stays None and no task is made
HSttStartFails(c) ==
  /\ hpc[c] = "start_stt"
  /\ NoFault
  /\ HandlerRaises(c, [sessions EXCEPT ![session[c]].fault = "stt_start"], "ConnectError")
  /\ UNCHANGED <<editor, modal, lim, tin, nframes, pending_calls, nregs, session, htts, ttss, cycles,
                 nmsgs, outbound>>

\* _speak: websockets.connect raises inside tts.connect()
HSpConnectFails(c) ==
  /\ hpc[c] = "sp_connect"
  /\ NoFault
  /\ HandlerRaises(c, [sessions EXCEPT ![session[c]].fault = "tts_connect"], "ConnectError")
  /\ UNCHANGED <<editor, modal, lim, tin, nframes, pending_calls, nregs, session, htts, ttss, cycles,
                 nmsgs, outbound>>

\* _speak: the synthesizer connection is lost; ws.send in send_text raises
HSpSendFails(c) ==
  /\ hpc[c] = "sp_send"
  /\ NoFault
  /\ ttss' = [ttss EXCEPT ![htts[c]].ws = "closed"]
  /\ HandlerRaises(c, [sessions EXCEPT ![session[c]].fault = "tts_send"], "ConnectionClosed")
  /\ UNCHANGED <<editor, modal, lim, tin, nframes, pending_calls, nregs, session, htts, cycles,
                 nmsgs, outbound>>

\* an exception leaves _on_callee_done_speaking at its await in _listen:
\* `except ConnectionClosed: pass` returns from _listen, any other exception
\* ends the task with that exception
ListenAfter(exc) == IF exc = "ConnectionClosed" THEN "finished" ELSE "failed"

\* the callback of turn k raises exc to _listen
CallbackRaises(k, exc, fault) ==
  /\ cycles' = [cycles EXCEPT ![k].pc = "failed"]
  /\ sessions' = [sessions EXCEPT ![cycles[k].s].listen_task = ListenAfter(exc),
                                  ![cycles[k].s].lwait = 0,
                                  ![cycles[k].s].fault = fault]

\* response turn: websockets.connect raises inside tts.connect()
CycleConnectFails(k) ==
  /\ cycles[k].pc = "connect"
  /\ NoFault
  /\ CallbackRaises(k, "ConnectError", "tts_connect")
  /\ UNCHANGED <<editor, modal, lim, tin, nframes, pending_calls, nregs, hpc, session, htts, raised,
                 hsecond, ttss, nmsgs, outbound>>

\* response turn: the synthesizer connection is lost; on_sentence's ws.send
\* raises ConnectionClosed through stream_response
CycleSendFails(k) ==
  /\ cycles[k].pc = "stream"
  /\ NoFault
  /\ ttss' = [ttss EXCEPT ![cycles[k].tts].ws = "closed"]
  /\ CallbackRaises(k, "ConnectionClosed", "tts_send")
  /\ UNCHANGED <<editor, modal, lim, tin, nframes, pending_calls, nregs, hpc, session, htts, raised,
                 hsecond, nmsgs, outbound>>

\* response turn: client.messages.stream raises (the model call fails)
CycleModelFails(k) ==
  /\ cycles[k].pc = "stream"
  /\ NoFault
  /\ CallbackRaises(k, "APIError", "llm")
  /\ UNCHANGED <<editor, modal, lim, tin, nframes, pending_calls, nregs, hpc, session, htts, raised,
                 hsecond, ttss, nmsgs, outbound>>

\* the recognizer connection is lost mid-call
SttDrops(s) ==
  /\ sessions[s].stt_ws = "open"
  /\ NoFault
  /\ sessions' = [sessions EXCEPT ![s].stt_ws = "closed", ![s].fault = "stt_drop"]
  /\ UNCHANGED <<editor, modal, lim, tin, nframes, pending_calls, nregs, hpc, session, htts, raised,
                 hsecond, ttss, cycles, nmsgs, outbound>>

MaxMsgsFail == 2     \* failing services: messages the recognizer sends
MaxCyclesFail == 1   \* failing services: response turns
MaxFramesFail == 1   \* failing services: media events delivered

LimitsFail ==
  { [conns |-> 1, sessions |-> 1, msgs |-> MaxMsgsFail, cycles |-> MaxCyclesFail,
     frames |-> MaxFramesFail, regs |-> MaxRegs] }

InitFail == \E l \in LimitsFail : InitOf(l)

\* the steps the program takes by itself: no event of the transport, no message
\* of the recognizer, no failure of a service
Internal ==
  \/ \E c \in Conns : HSttStarted(c)
  \/ \E c \in Conns : HSpConnect(c)
  \/ \E c \in Conns : HSpInit(c)
  \/ \E c \in Conns : HSpSend(c)
  \/ \E c \in Conns : HSpSettle(c)
  \/ \E c \in Conns : HSpClose(c)
  \/ \E c \in Conns : HMedia(c)
  \/ \E c \in Conns : HEndStt(c)
  \/ \E c \in Conns : HEndTts(c)
  \/ \E s \in Sess : ListenResults(s)
  \/ \E s \in Sess : ListenUtteranceEnd(s)
  \/ \E s \in Sess : ListenClosed(s)
  \/ \E k \in Cyc : CycleConnect(k)
  \/ \E k \in Cyc : CycleInit(k)
  \/ \E k \in Cyc, r \in Replies : CycleStream(k, r)
  \/ \E k \in Cyc : CycleSettle(k)
  \/ \E k \in Cyc : CycleClose(k)
  \/ \E k \in Cyc : CycleGrace(k)
  \/ \E k \in Cyc : CycleEndStt(k)
  \/ \E t \in Tts : TtsAudio(t)
  \/ \E t \in Tts : TtsFinal(t)
  \/ \E t \in Tts : TtsClosed(t)

\* one call on the default specification in which one service may fail once
NextFail ==
  \/ HStart(1, "zzz999")
  \/ FrameArrives(1)
  \/ HStop(1)
  \/ HDisconnect(1)
  \/ \E s \in Sess, m \in SttMessages : SttSend(s, m)
  \/ Internal
  \/ HSttStartFails(1)
  \/ HSpConnectFails(1)
  \/ HSpSendFails(1)
  \/ \E k \in Cyc : CycleConnectFails(k)
  \/ \E k \in Cyc : CycleSendFails(k)
  \/ \E k \in Cyc : CycleModelFails(k)
  \/ \E s \in Sess : SttDrops(s)

SpecFail == InitFail /\ [][NextFail]_vars

\* ------------------------------------------------ two concurrent calls
MaxConnsTwo == 2     \* two calls: media_stream tasks
MaxMsgsTwo == 2      \* two calls: messages the recognizers send
MaxCyclesTwo == 1    \* two calls: response turns

LimitsTwo ==
  { [conns |-> MaxConnsTwo, sessions |-> MaxConnsTwo, msgs |-> MaxMsgsTwo,
     cycles |-> MaxCyclesTwo, frames |-> 0, regs |-> MaxRegs] }

InitTwo == \E l \in LimitsTwo : InitOf(l)

\* a connection that has had its start event reads no second one
FirstStart(c) == session[c] = 0

\* the steps of the handlers and of the recognizers' receive tasks
Turns ==
  \/ \E c \in Conns : HSttStarted(c)
  \/ \E c \in Conns : HSpConnect(c)
  \/ \E c \in Conns : HSpInit(c)
  \/ \E c \in Conns : HSpSend(c)
  \/ \E c \in Conns : HSpSettle(c)
  \/ \E c \in Conns : HSpClose(c)
  \/ \E c \in Conns : HEndStt(c)
  \/ \E c \in Conns : HEndTts(c)
  \/ \E s \in Sess : ListenResults(s)
  \/ \E s \in Sess : ListenUtteranceEnd(s)
  \/ \E s \in Sess : ListenClosed(s)
  \/ \E k \in Cyc : CycleConnect(k)
  \/ \E k \in Cyc : CycleInit(k)
  \/ \E k \in Cyc : CycleStream(k, R_CHECK)
  \/ \E k \in Cyc : CycleSettle(k)
  \/ \E k \in Cyc : CycleClose(k)

\* two media_stream tasks, one call each on the default specification; one
\* service of one of the calls may fail once
NextTwo ==
  \/ \E c \in Conns : FirstStart(c) /\ HStart(c, "zzz999")
  \/ \E c \in Conns : HDisconnect(c)
  \/ \E s \in Sess, m \in SttMessages : SttSend(s, m)
  \/ Turns
  \/ \E c \in Conns : HSttStartFails(c)
  \/ \E c \in Conns : HSpConnectFails(c)
  \/ \E c \in Conns : HSpSendFails(c)
  \/ \E k \in Cyc : CycleConnectFails(k)
  \/ \E k \in Cyc : CycleSendFails(k)
  \/ \E k \in Cyc : CycleModelFails(k)
  \/ \E s \in Sess : SttDrops(s)

SpecTwo == InitTwo /\ [][NextTwo]_vars

\* ------------------------------------------------- synthesized audio
MaxChunks == 2       \* audio: chunks a synthesizer sends
ChunkLens == {3, 6}   \* audio: byte lengths of the chunks (3: not whole frames)

\* audioop.ratecv(fragment, 2, 1, 24000, 8000, None) on a fragment of n bytes
\* raises audioop.error when n is not a whole number of 2-byte frames
RatecvRaises(n) == n % 2 # 0

\* the number of 16-bit samples it returns otherwise: one for every third
\* input frame, from the first
Ratecv(n) == ((n \div 2) + 2) \div 3

\* audio.pcm_to_mulaw on m samples: lin2ulaw gives one byte per sample
PcmToMulaw(m) == m

\* audio.elevenlabs_to_twilio on a chunk of n bytes: it raises, or returns
\* `out` mu-law bytes
ElevenlabsToTwilio(n) ==
  IF RatecvRaises(n) THEN [raises |-> TRUE, out |-> 0]
  ELSE [raises |-> FALSE, out |-> PcmToMulaw(Ratecv(n))]

\* StreamingTTS._listen reads an audio message of n bytes: on_audio_chunk ->
\* _send_audio_to_twilio converts it and sends it on the transport; an
\* exception of the conversion is no ConnectionClosed and ends the task
TtsChunk(t, n) ==
  /\ ttss[t].listen_task = "running"
  /\ ttss[t].ws \in {"open", "closing"}
  /\ Len(ttss[t].chunks) < MaxChunks
  /\ IF ElevenlabsToTwilio(n).raises
     THEN /\ ttss' = [ttss EXCEPT ![t].listen_task = "failed",
                                  ![t].chunks = Append(@, n)]
          /\ UNCHANGED outbound
     ELSE /\ ttss' = [ttss EXCEPT ![t].chunks = Append(@, n)]
          /\ outbound' = outbound + 1
  /\ UNCHANGED <<editor, modal, lim, tin, nframes, pending_calls, nregs, hpc, session, htts, raised,
                 hsecond, sessions, cycles, nmsgs>>

LimitsAudio ==
  { [conns |-> 1, sessions |-> 1, msgs |-> MaxMsgsRestart, cycles |-> MaxCyclesRestart,
     frames |-> 0, regs |-> MaxRegs] }

InitAudio == \E l \in LimitsAudio : InitOf(l)

\* one call on the default specification whose synthesizers send audio chunks
\* of any of the lengths while the opening line and a response turn are spoken
NextAudio ==
  \/ HStart(1, "zzz999")
  \/ HSttStarted(1)
  \/ HSpConnect(1)
  \/ HSpInit(1)
  \/ HSpSend(1)
  \/ HSpSettle(1)
  \/ HSpClose(1)
  \/ \E s \in Sess, m \in SttMessages : SttSend(s, m)
  \/ \E s \in Sess : ListenResults(s)
  \/ \E s \in Sess : ListenUtteranceEnd(s)
  \/ \E k \in Cyc : CycleConnect(k)
  \/ \E k \in Cyc : CycleInit(k)
  \/ \E k \in Cyc : CycleStream(k, R_CHECK)
  \/ \E k \in Cyc : CycleSettle(k)
  \/ \E k \in Cyc : CycleClose(k)
  \/ \E t \in Tts, n \in ChunkLens : TtsChunk(t, n)
  \/ \E t \in Tts : TtsFinal(t)
  \/ \E t \in Tts : TtsClosed(t)

SpecAudio == InitAudio /\ [][NextAudio]_vars

\* ------------------------------------------------ repeated registration
MaxRegsReg == 3      \* registry: registration calls in a run
MaxConnsReg == 2     \* registry: connections that look an id up

\* call_spec_id values registered in these runs
RegIdsReg == {"abc123", "def456"}

\* the registration calls of a run, in order
RegScripts == [1..MaxRegsReg -> [id : RegIdsReg, spec : RegSpecs]]

\* a run makes the registration calls of lim.script, one after the other
LimitsReg ==
  { [conns |-> MaxConnsReg, sessions |-> MaxConnsReg, msgs |-> 0, cycles |-> 0,
     frames |-> 0, regs |-> MaxRegsReg, script |-> sc] : sc \in RegScripts }

InitReg == \E l \in LimitsReg : InitOf(l)

\* registration calls, and start events that look an id up between them
NextReg ==
  \/ nregs < lim.regs /\ RegisterCall(lim.script[nregs + 1].id, lim.script[nregs + 1].spec)
  \/ \E c \in Conns, id \in RegIdsReg : FirstStart(c) /\ HStart(c, id)

SpecReg == InitReg /\ [][NextReg]_vars

\* ------------------------------------------------ the streamed reply
MaxTokens == 2       \* streamed reply: tokens of the model stream
MaxTokenLen == 2     \* streamed reply: characters of a token

\* characters of the tokens
TokenChars == {"a", " ", ".", ","}
Tokens == UNION {[1..n -> TokenChars] : n \in 1..MaxTokenLen}
TokenLists == UNION {[1..n -> Tokens] : n \in 1..MaxTokens}

\* `for sep in [".", "!", "?", ",", ";"]`
Seps == <<".", "!", "?", ",", ";">>

\* `sep in buffer`
Has(buffer, c) == \E i \in DOMAIN buffer : buffer[i] = c

\* the first sep of the list that is in buffer (0: none; the `break`)
FirstSepIn(buffer) ==
  IF \E j \in DOMAIN Seps : Has(buffer, Seps[j])
  THEN CHOOSE j \in DOMAIN Seps :
         Has(buffer, Seps[j]) /\ \A x \in 1..(j - 1) : ~Has(buffer, Seps[x])
  ELSE 0

\* buffer.split(sep, 1): the parts before and after the first sep
SplitOnce(buffer, c) ==
  LET i == CHOOSE x \in DOMAIN buffer :
             buffer[x] = c /\ \A y \in 1..(x - 1) : buffer[y] # c
  IN <<SubSeq(buffer, 1, i - 1), SubSeq(buffer, i + 1, Len(buffer))>>

\* the body of `async for token`: st is [full, buffer, out], out being the
\* texts passed to on_sentence so far
OnToken(st, token) ==
  LET buffer == st.buffer \o token
      j == FirstSepIn(buffer)
  IN IF j = 0
     THEN [full |-> st.full \o token, buffer |-> buffer, out |-> st.out]
     ELSE LET parts == SplitOnce(buffer, Seps[j])
          IN [full |-> st.full \o token, buffer |-> parts[2],
              out |-> Append(st.out, Strip(parts[1] \o <<Seps[j]>>))]

RECURSIVE OnTokens(_, _)
OnTokens(st, tokens) ==
  IF tokens = <<>> THEN st ELSE OnTokens(OnToken(st, Head(tokens)), Tail(tokens))

\* stream_response over the tokens of a stream: full is what it returns and
\* out the texts it passes to on_sentence, the flushed remainder included
StreamResponse(tokens) ==
  LET st == OnTokens([full |-> <<>>, buffer |-> <<>>, out |-> <<>>], tokens)
  IN [full |-> st.full,
      out |-> IF Strip(st.buffer) # <<>> THEN Append(st.out, Strip(st.buffer))
              ELSE st.out]

\* the model stream of turn k yields tokens and ends: each sentence went to
\* tts.send_text; the agent turn is appended; tts.flush(); asyncio.sleep(0.5)
CycleStreamTokens(k, tokens) ==
  /\ cycles[k].pc = "stream"
  /\ ttss' = [ttss EXCEPT ![cycles[k].tts].sent = @ \o StreamResponse(tokens).out]
  /\ sessions' = [sessions EXCEPT
       ![cycles[k].s].messages =
          Append(@, [role |-> "assistant", content |-> StreamResponse(tokens).full])]
  /\ cycles' = [cycles EXCEPT ![k].pc = "settle",
                               ![k].response = StreamResponse(tokens).full]
  /\ UNCHANGED <<editor, modal, lim, tin, nframes, pending_calls, nregs, hpc, session, htts, raised,
                 hsecond, nmsgs, outbound>>

\* a run streams the tokens of lim.tokens as the reply of its response turn
LimitsChunk ==
  { [conns |-> 1, sessions |-> 1, msgs |-> MaxMsgsRestart, cycles |-> MaxCyclesRestart,
     frames |-> 0, regs |-> MaxRegs, tokens |-> ts] : ts \in TokenLists }

InitChunk == \E l \in LimitsChunk : InitOf(l)

\* one call on the default specification up to the end of its response turn
NextChunk ==
  \/ HStart(1, "zzz999")
  \/ HSttStarted(1)
  \/ HSpConnect(1)
  \/ HSpInit(1)
  \/ HSpSend(1)
  \/ HSpSettle(1)
  \/ HSpClose(1)
  \/ \E s \in Sess, m \in SttMessages : SttSend(s, m)
  \/ \E s \in Sess : ListenResults(s)
  \/ \E s \in Sess : ListenUtteranceEnd(s)
  \/ \E k \in Cyc : CycleConnect(k)
  \/ \E k \in Cyc : CycleInit(k)
  \/ \E k \in Cyc : CycleStreamTokens(k, lim.tokens)
  \/ \E k \in Cyc : CycleSettle(k)
  \/ \E k \in Cyc : CycleClose(k)

SpecChunk == InitChunk /\ [][NextChunk]_vars

\* ------------------------------------------- the scripted recognizer
\* what a recognizer backend may send: final results, an interim result
\* (is_final false) and the utterance boundary
SttMessagesStt ==
  { [type |-> "Results", transcript |-> T_YES, is_final |-> TRUE],
    [type |-> "Results", transcript |-> T_GO, is_final |-> TRUE],
    [type |-> "Results", transcript |-> T_YE, is_final |-> FALSE],
    [type |-> "Results", transcript |-> <<" ">>, is_final |-> TRUE],
    [type |-> "UtteranceEnd", transcript |-> <<>>, is_final |-> FALSE] }

LimitsStt ==
  { [conns |-> 1, sessions |-> 1, msgs |-> MaxMsgsStt, cycles |-> MaxCycles,
     frames |-> 0, regs |-> MaxRegs] }

InitStt == \E l \in LimitsStt : InitOf(l)

\* one session on the default specification; the recognizer sends any sequence
\* of the messages; the callback runs a turn that returns (the model's reply
\* holds no goodbye phrase, nobody stops the call)
NextStt ==
  \/ HStart(1, "zzz999")
  \/ HSttStarted(1)
  \/ HSpConnect(1)
  \/ HSpInit(1)
  \/ HSpSend(1)
  \/ HSpSettle(1)
  \/ HSpClose(1)
  \/ \E s \in Sess, m \in SttMessagesStt : SttSend(s, m)
  \/ \E s \in Sess : ListenResults(s)
  \/ \E s \in Sess : ListenUtteranceEnd(s)
  \/ \E k \in Cyc : CycleConnect(k)
  \/ \E k \in Cyc : CycleInit(k)
  \/ \E k \in Cyc : CycleStream(k, R_CHECK)
  \/ \E k \in Cyc : CycleSettle(k)
  \/ \E k \in Cyc : CycleClose(k)

SpecStt == InitStt /\ [][NextStt]_vars

\* ------------------------------------------- the organization editor
MaxUids == 4         \* editor: ids uid() can yield
MaxDepts == 2        \* editor: departments
MaxPeople == 3       \* editor: people over all departments
MaxConns == 2        \* editor: connections

\* the ids uid() yields
Uids == 1..MaxUids

\* the ids of the departments ds
DeptIds(ds) == {ds[i].id : i \in DOMAIN ds}

\* the ids of the people of department d
PeopleOf(d) == {d.people[j] : j \in DOMAIN d.people}

\* the ids of the people in some department of ds
PersonIds(ds) == UNION {PeopleOf(ds[i]) : i \in DOMAIN ds}

\* uid(): a random id, taken to differ from every id in use
Uid(id) ==
  /\ id \notin DeptIds(departments) \cup PersonIds(departments)
  /\ \A i \in DOMAIN connections : id # connections[i].from /\ id # connections[i].to

\* the departments the editor can load: none, or one department with two people
\* (SEED_DEPARTMENTS cut down to the bounds)
Seeds == {<<>>, <<[id |-> 1, people |-> <<2, 3>>]>>}

\* addDepartment(name, head): nothing for a blank name, else a new empty department
AddDepartment(named, id) ==
  /\ Len(departments) < MaxDepts
  /\ Uid(id)
  /\ departments' = IF named
                    THEN Append(departments, [id |-> id, people |-> <<>>])
                    ELSE departments
  /\ UNCHANGED <<connections, modal, service>>

\* addPerson(deptId, name, role, tasks): nothing for a blank name, else a new
\* person at the end of every department with that id
AddPerson(deptId, named, id) ==
  /\ Cardinality(PersonIds(departments)) < MaxPeople
  /\ Uid(id)
  /\ departments' =
       IF named
       THEN [i \in DOMAIN departments |->
               IF departments[i].id = deptId
               THEN [departments[i] EXCEPT !.people = Append(@, id)]
               ELSE departments[i]]
       ELSE departments
  /\ UNCHANGED <<connections, modal, service>>

\* a deletePerson that keeps the connections arriving at the person
WithoutPerson_from(cs, personId) ==
  SelectSeq(cs, LAMBDA c : c.from # personId)

\* cs.filter((c) => c.from !== personId && c.to !== personId)
WithoutPerson(cs, personId) ==
  SelectSeq(cs, LAMBDA c : c.from # personId /\ c.to # personId)

\* deletePerson(deptId, personId)
DeletePerson(deptId, personId) ==
  /\ departments' =
       [i \in DOMAIN departments |->
          IF departments[i].id = deptId
          THEN [departments[i] EXCEPT
                  !.people = SelectSeq(@, LAMBDA q : q # personId)]
          ELSE departments[i]]
  /\ connections' = WithoutPerson(connections, personId)
  /\ UNCHANGED <<modal, service>>

\* deleteDepartment(deptId): nothing when no department has the id, else the
\* department goes with the connections of its people
DeleteDepartment(deptId) ==
  /\ IF deptId \notin DeptIds(departments)
     THEN UNCHANGED <<departments, connections>>
     ELSE LET first == CHOOSE i \in DOMAIN departments :
                         /\ departments[i].id = deptId
                         /\ \A j \in 1..(i - 1) : departments[j].id # deptId
              pids == PeopleOf(departments[first])
          IN /\ departments' = SelectSeq(departments, LAMBDA d : d.id # deptId)
             /\ connections' = SelectSeq(connections,
                                  LAMBDA c : c.from \notin pids /\ c.to \notin pids)
  /\ UNCHANGED <<modal, service>>

\* addConnection(from, to, label), called with two people of the organization
AddConnection(from, to) ==
  /\ Len(connections) < MaxConns
  /\ from \in PersonIds(departments)
  /\ to \in PersonIds(departments)
  /\ connections' = Append(connections, [from |-> from, to |-> to])
  /\ UNCHANGED <<departments, modal, service>>

\* removeConnection(index): cs.filter((_, idx) => idx !== index), counting from 0
RemoveConnection(index) ==
  /\ connections' = [i \in 1..(Len(connections) - (IF index < Len(connections) THEN 1 ELSE 0)) |->
                       IF i <= index THEN connections[i] ELSE connections[i + 1]]
  /\ UNCHANGED <<departments, modal, service>>

\* the editor alone: the telephone service and the upload modal stay as constructed
InitNexus ==
  /\ \E l \in LimitsStt : InitService(l)
  /\ \E ds \in Seeds : InitEditor(ds)
  /\ InitModal

NextNexus ==
  \/ \E named \in BOOLEAN, id \in Uids : AddDepartment(named, id)
  \/ \E deptId \in Uids, named \in BOOLEAN, id \in Uids : AddPerson(deptId, named, id)
  \/ \E deptId \in Uids, personId \in Uids : DeletePerson(deptId, personId)
  \/ \E deptId \in Uids : DeleteDepartment(deptId)
  \/ \E from \in Uids, to \in Uids : AddConnection(from, to)
  \/ \E index \in 0..MaxConns : RemoveConnection(index)

SpecNexus == InitNexus /\ [][NextNexus]_vars

\* -------------------------------------------- the transcript upload modal
\* prev.map((f) => f.filename === filename ? { ...f, status } : f)
SetStatus(fs, filename, status) ==
  [i \in DOMAIN fs |->
     IF fs[i].filename = filename THEN [fs[i] EXCEPT !.status = status] ELSE fs[i]]

\* files.some((f) => f.status === "pending" || f.status === "processing")
HasActive(fs) == \E i \in DOMAIN fs : fs[i].status \in {"pending", "processing"}

\* advanceToResultsIfDone(files), as the step it leaves when the step was st
AdvanceToResultsIfDone(fs, st) == IF ~HasActive(fs) THEN "results" ELSE st

\* the status a finished request leaves: "completed", or "error" when it threw
Outcome(ok) == IF ok THEN "completed" ELSE "error"

\* handleUpload, from the return of api.uploadTranscripts with n files
HandleUpload(n) ==
  /\ step = "upload"
  /\ uploadedFiles' = [i \in 1..n |-> [filename |-> i, status |-> "pending"]]
  /\ step' = "uploaded"
  /\ UNCHANGED <<requests, processAll, editor, service>>

\* the Process button of a pending file (shown while step is "uploaded"):
\* handleProcessFile up to its await
HandleProcessFile(filename) ==
  /\ step = "uploaded"
  /\ \E i \in DOMAIN uploadedFiles :
       uploadedFiles[i].filename = filename /\ uploadedFiles[i].status = "pending"
  /\ requests[filename] < MaxRequests
  /\ uploadedFiles' = SetStatus(uploadedFiles, filename, "processing")
  /\ requests' = [requests EXCEPT ![filename] = @ + 1]
  /\ UNCHANGED <<step, processAll, editor, service>>

\* api.processTranscript returns or throws for a Process click: the rest of
\* handleProcessFile
ProcessReturns(filename, ok) ==
  /\ requests[filename] > 0
  /\ requests' = [requests EXCEPT ![filename] = @ - 1]
  /\ LET updated == SetStatus(uploadedFiles, filename, Outcome(ok))
     IN /\ uploadedFiles' = updated
        /\ step' = AdvanceToResultsIfDone(updated, step)
  /\ UNCHANGED <<processAll, editor, service>>

\* the loop of handleProcessAll from place i of its snapshot, over files fs at
\* step st: the next file the snapshot holds as pending is set to processing
\* and awaited; with none left, setStep("results")
ProcessAllFrom(snap, i, fs, st) ==
  LET rest == {j \in i..Len(snap) : snap[j].status = "pending"}
  IN IF rest = {}
     THEN /\ uploadedFiles' = fs
          /\ step' = "results"
          /\ processAll' = NotProcessingAll
     ELSE LET j == CHOOSE x \in rest : \A y \in rest : x <= y
          IN /\ uploadedFiles' = SetStatus(fs, snap[j].filename, "processing")
             /\ step' = st
             /\ processAll' = [pc |-> "await", snap |-> snap, i |-> j]

\* the Process All button (shown while step is "uploaded"): handleProcessAll
\* up to its first await, or to its end (one handleProcessAll call at a time)
HandleProcessAll ==
  /\ step = "uploaded"
  /\ processAll.pc = "idle"
  /\ ProcessAllFrom(uploadedFiles, 1, uploadedFiles, "processing")
  /\ UNCHANGED <<requests, editor, service>>

\* api.processTranscript returns or throws for the file handleProcessAll
\* awaits: the rest of handleProcessFile, then the loop goes on
ProcessAllReturns(ok) ==
  /\ processAll.pc = "await"
  /\ LET snap == processAll.snap
         i == processAll.i
         updated == SetStatus(uploadedFiles, snap[i].filename, Outcome(ok))
     IN ProcessAllFrom(snap, i + 1, updated, AdvanceToResultsIfDone(updated, step))
  /\ UNCHANGED <<requests, editor, service>>

\* the back button of the results step: setStep("uploaded")
BackToUploaded ==
  /\ step = "results"
  /\ step' = "uploaded"
  /\ UNCHANGED <<uploadedFiles, requests, processAll, editor, service>>

\* handleClose (Close, Done or dismissing the dialog): resetModal unless processing
HandleClose ==
  /\ step # "processing"
  /\ uploadedFiles' = <<>>
  /\ step' = "upload"
  /\ UNCHANGED <<requests, processAll, editor, service>>

\* the modal alone: the telephone service and the editor stay as constructed
InitUpload ==
  /\ \E l \in LimitsStt : InitService(l)
  /\ InitEditor(<<>>)
  /\ InitModal

NextUpload ==
  \/ \E n \in 1..MaxFiles : HandleUpload(n)
  \/ \E f \in Filenames : HandleProcessFile(f)
  \/ \E f \in Filenames, ok \in BOOLEAN : ProcessReturns(f, ok)
  \/ HandleProcessAll
  \/ \E ok \in BOOLEAN : ProcessAllReturns(ok)
  \/ BackToUploaded
  \/ HandleClose

SpecUpload == InitUpload /\ [][NextUpload]_vars

\* ------------------------------------------------------------ claims
\* a callback that has been entered and has neither returned nor been cancelled
Running(k) == cycles[k].pc \notin {"done", "cancelled"}

\* a response cycle: from the entry of the callback until its synthesizer is closed
InCycle(k) == cycles[k].pc \in {"connect", "init", "stream", "settle", "close"}

\* C1: for one CallSession at most one response cycle is in progress at any
\* time, and a later utterance-complete event is not acted upon while an
\* earlier callback of the session is still running.
C1_OneCycleAtATime ==
  \A s \in Sess :
    /\ Cardinality({k \in Cyc : cycles[k].s = s /\ InCycle(k)}) <= 1
    /\ Cardinality({k \in Cyc : cycles[k].s = s /\ Running(k)}) <= 1

\* C1 witness: a second utterance is in its response cycle after the first
\* one of the same session has completed.
C1_Witness ==
  \E j \in Cyc, k \in Cyc :
    /\ j < k /\ cycles[j].s = cycles[k].s
    /\ cycles[j].pc = "done" /\ InCycle(k)

\* the opening line is being spoken: from _speak setting is_speaking until
\* its synthesizer has been closed
OpeningInProgress(c) ==
  hpc[c] \in {"sp_connect", "sp_init", "sp_send", "sp_settle", "sp_close"}

\* C2: while the opening line of the session is still being spoken, no
\* utterance callback of the session has opened a second synthesizer or
\* called the model (the model is called only once the synthesizer is open).
C2_NoCycleDuringOpening ==
  \A c \in Conns :
    OpeningInProgress(c) =>
      \A k \in Cyc : cycles[k].s = session[c] => ttss[cycles[k].tts].ws = "none"

\* C3: an utterance whose callback finds is_speaking true is ignored: no
\* synthesizer is ever opened for it (and so no callee turn is appended).
C3_SpokenOverIgnored ==
  \A k \in Cyc : cycles[k].over => ttss[cycles[k].tts].ws = "none"

\* C4: once an end() call of a session has returned, is_active is false, the
\* recognizer connection is closed, its receive task is not running, and no
\* synthesizer connection of the session is open.
C4_EndReleasesAll ==
  \A s \in Sess :
    sessions[s].ended =>
      /\ ~sessions[s].is_active
      /\ sessions[s].stt_ws \in {"none", "closed"}
      /\ sessions[s].listen_task # "running"
      /\ \A t \in Tts : ttss[t].s = s => ttss[t].ws \notin {"open", "closing"}

\* what the claims call the state of a session
SessionState(s) ==
  << sessions[s].is_active, sessions[s].is_speaking, sessions[s].stt_ws,
     sessions[s].listen_task, sessions[s].messages, sessions[s].tts,
     [t \in {u \in Tts : ttss[u].s = s} |-> ttss[t]] >>

\* C5: shutdown is idempotent. Every step of an end() call that began after
\* an end() of the session had returned leaves the session's state as it was,
\* and nothing changes a synthesizer whose close() has returned.
C5_ShutdownIdempotent ==
  [][ /\ \A c \in Conns :
           (hpc'[c] # hpc[c] /\ hsecond'[c]) =>
              SessionState(session[c])' = SessionState(session[c])
      /\ \A t \in Tts : ttss[t].ws = "closed" => ttss'[t] = ttss[t] ]_vars

\* C5 witness: an end() call made after an earlier end() had returned has
\* returned as well.
C5_Witness == \E c \in Conns : hsecond[c] /\ hpc[c] = "closed"

\* C6: once is_active is false it stays false, and an utterance-complete
\* event read while it is false changes no history, opens no synthesizer,
\* starts no callback and sends no audio.
C6_EndedIsTerminal ==
  [][ \A s \in Sess :
        /\ ~sessions[s].is_active => ~sessions'[s].is_active
        /\ ( /\ ~sessions[s].is_active
             /\ ListenReads(s, "UtteranceEnd")
             /\ sessions'[s].inbox = Tail(sessions[s].inbox) )
           => /\ sessions'[s].messages = sessions[s].messages
              /\ sessions'[s].is_speaking = sessions[s].is_speaking
              /\ UNCHANGED <<ttss, cycles, outbound>> ]_vars

\* C6 witness: a session that is not active has read a completed, non-empty
\* utterance and returned at the guard.
C6_Witness == \E s \in Sess : ~sessions[s].is_active /\ sessions[s].ignored > 0

\* C7: a registered specification is claimed by at most one session: no two
\* sessions read the entry that one registration call stored.
C7_ClaimedOnce ==
  \A a \in Sess, b \in Sess :
    (a # b /\ sessions[a].reg # 0) =>
       ~(sessions[a].spec_id = sessions[b].spec_id /\ sessions[a].reg = sessions[b].reg)

\* the media stream has started and has not ended
StreamLive(c) == session[c] # 0 /\ hpc[c] \notin {"end_stt", "end_tts", "closed"}

\* C8: while the media stream is live exactly one CallSession is active.
C8_OneActiveSession ==
  \A c \in Conns :
    StreamLive(c) =>
      Cardinality({s \in Sess : sessions[s].conn = c /\ sessions[s].is_active}) = 1

\* "Hi there, this is Alex calling from our office. Do you have a quick moment?"
GENERIC_OPENING ==
  <<"H","i"," ","t","h","e","r","e",","," ","t","h","i","s"," ","i","s"," ",
    "A","l","e","x"," ","c","a","l","l","i","n","g"," ","f","r","o","m"," ",
    "o","u","r"," ","o","f","f","i","c","e","."," ","D","o"," ","y","o","u"," ",
    "h","a","v","e"," ","a"," ","q","u","i","c","k"," ","m","o","m","e","n","t","?">>

\* C9: a session created for an unregistered call-setup id never makes
\* start() raise on its specification, and the opening line it speaks and
\* records is the generic one.
C9_DefaultSpecStarts ==
  \A s \in Sess :
    sessions[s].spec_id = "" =>
      /\ (session[sessions[s].conn] = s =>
            raised[sessions[s].conn] \notin {"KeyError", "IndexError"})
      /\ \A t \in Tts :
           (ttss[t].s = s /\ t = htts[sessions[s].conn] /\ ttss[t].sent # <<>>) =>
           ttss[t].sent[1] = GENERIC_OPENING
      /\ \A i \in DOMAIN sessions[s].messages :
           ( /\ sessions[s].messages[i].role = "assistant"
             /\ sessions[s].messages[i].content \notin Replies )
           => sessions[s].messages[i].content = GENERIC_OPENING

\* C9 witness: start() has returned for a session with the default
\* specification, the opening line spoken and recorded.
C9_Witness ==
  \E s \in Sess :
    /\ sessions[s].spec_id = ""
    /\ session[sessions[s].conn] = s
    /\ hpc[sessions[s].conn] = "recv"
    /\ raised[sessions[s].conn] = "none"
    /\ sessions[s].is_active
    /\ Len(sessions[s].messages) = 1

\* replies with and without a phrase of the vocabulary, classified by hand
ReplySamples ==
  {R_CHECK, R_TALK_SOON, R_GOODBYE, R_BYE, R_GREAT, R_CARE, R_BUY, R_GOOD, R_STANDBY}
GoodbyeSamples == {R_TALK_SOON, R_GOODBYE, R_BYE, R_GREAT, R_CARE}
\* _is_goodbye agrees with the classification on every sample
GoodbyeTable == \A r \in ReplySamples : IsGoodbye(r) <=> r \in GoodbyeSamples

\* C10: after the synthesizer of a reply is closed the callback goes on to
\* the grace period and end() exactly when the reply holds a phrase of the
\* vocabulary (any case, as a substring); otherwise it returns, the session
\* stays active and _listen reads the next message.
C10_GoodbyeDecides ==
  [][ /\ GoodbyeTable
      /\ \A k \in Cyc :
           /\ (cycles[k].pc = "close" /\ cycles'[k].pc \notin {"close", "cancelled"}) =>
                IF cycles[k].response \in GoodbyeSamples
                THEN cycles'[k].pc = "grace"
                ELSE /\ cycles'[k].pc = "done"
                     /\ sessions'[cycles[k].s].is_active = sessions[cycles[k].s].is_active
                     /\ sessions'[cycles[k].s].lwait = 0
           /\ (cycles[k].pc = "grace" /\ cycles'[k].pc \notin {"grace", "cancelled"}) =>
                /\ cycles'[k].pc = "end_stt"
                /\ ~sessions'[cycles[k].s].is_active ]_vars

\* C10 witness: a reply with a goodbye phrase in mixed case has led into end().
C10_Witness ==
  \E k \in Cyc : cycles[k].pc = "end_stt" /\ cycles[k].response = R_TALK_SOON

\* C16: a media frame read after the recognizer connection has been closed or
\* is closing is dropped silently: send_audio raises nothing into media_stream.
C16_ClosedSendDrops == \A c \in Conns : raised[c] # "ConnectionClosed"

\* C17: every media frame that media_stream reads while its session is active
\* is sent to the recognizer by that very step, and the frames a recognizer
\* was sent are in arrival order, none twice.
C17_FramesForwardedInOrder ==
  [][ /\ \A c \in Conns :
           ( /\ tin[c] # <<>> /\ tin'[c] = Tail(tin[c])
             /\ session[c] # 0 /\ sessions[session[c]].is_active )
           => sessions'[session[c]].fwd =
                Append(sessions[session[c]].fwd, Head(tin[c]))
      /\ \A s \in Sess : \A i \in DOMAIN sessions[s].fwd, j \in DOMAIN sessions[s].fwd :
           i < j => sessions[s].fwd[i] < sessions[s].fwd[j] ]_vars

\* C17 witness: two frames have been forwarded, in order, while a response
\* turn of the session is in progress.
C17_Witness ==
  \E k \in Cyc : InCycle(k) /\ sessions[cycles[k].s].fwd = <<1, 2>>

\* a media event is waiting for the handler of an active session
FrameWaiting(c) ==
  tin[c] # <<>> /\ session[c] # 0 /\ sessions[session[c]].is_active

\* the frames sent to the recognizers of connection c
Forwarded(c) ==
  UNION { {sessions[s].fwd[i] : i \in DOMAIN sessions[s].fwd} :
            s \in {x \in Sess : sessions[x].conn = c} }

\* C18 as stated: whenever a media frame is waiting for an active session,
\* media_stream can forward it at once, whatever turn is suspended.
C18_ForwardedDuringTurn == \A c \in Conns : FrameWaiting(c) => ENABLED HMedia(c)

\* C18 amended: a waiting frame can be forwarded at once unless media_stream is
\* itself inside start() (speaking the opening line); a response turn never
\* holds it back, and no frame delivered to an active session is lost.
C18_OnlyStartHoldsFrames ==
  \A c \in Conns :
    /\ FrameWaiting(c) =>
         (ENABLED HMedia(c) \/ hpc[c] = "start_stt" \/ OpeningInProgress(c))
    /\ (session[c] # 0 /\ sessions[session[c]].is_active) =>
         Forwarded(c) \cup {tin[c][i] : i \in DOMAIN tin[c]} = 1..nframes[c]

\* C18 witness: a frame delivered after a response turn began has been
\* forwarded while that turn is still in progress.
C18_Witness ==
  \E k \in Cyc :
    /\ InCycle(k)
    /\ \E i \in DOMAIN sessions[cycles[k].s].fwd :
         sessions[cycles[k].s].fwd[i] > cycles[k].f0

\* C19: a turn calls close() on its synthesizer (the opening line in _speak, a
\* response in _on_callee_done_speaking) only when the synthesizer's receive
\* task has finished, that is, has read isFinal, the service's mark that the
\* audio of the turn is complete.
C19_ClosedAfterAllAudio ==
  [][ /\ \A c \in Conns :
           (hpc[c] = "sp_settle" /\ hpc'[c] = "sp_close") =>
              ttss[htts[c]].listen_task = "finished"
      /\ \A k \in Cyc :
           (cycles[k].pc = "settle" /\ cycles'[k].pc = "close") =>
              ttss[cycles[k].tts].listen_task = "finished" ]_vars

\* C20: the callee turns of a session are appended to the history in the
\* order in which _listen read their utterance boundaries: when the turn of a
\* later boundary is in the history, the turn of every earlier boundary that
\* reached the callback is there before it, each with the text delivered.
C20_InReceiptOrder ==
  /\ \A j \in Cyc, k \in Cyc :
       ( /\ cycles[j].s = cycles[k].s
         /\ cycles[j].at < cycles[k].at
         /\ cycles[k].turn # 0 )
       => (cycles[j].turn # 0 /\ cycles[j].turn < cycles[k].turn)
  /\ \A k \in Cyc :
       cycles[k].turn # 0 =>
         sessions[cycles[k].s].messages[cycles[k].turn] =
           [role |-> "user", content |-> cycles[k].text]

\* C20 witness: two utterances of one session have their callee turns in the
\* history.
C20_Witness ==
  \E j \in Cyc, k \in Cyc :
    /\ cycles[j].s = cycles[k].s /\ cycles[j].at < cycles[k].at
    /\ cycles[j].turn # 0 /\ cycles[k].turn # 0

\* C11: in the happy-path scenario, once the turn for the callee's "Okay, bye"
\* is over (the callback has returned), the session has ended.
C11_ByeEndsSession ==
  \A k \in Cyc :
    (cycles[k].text = T_OKAY_BYE /\ cycles[k].pc = "done") =>
       ~sessions[cycles[k].s].is_active

\* the utterance boundaries among the messages L
Boundaries(L) == {i \in DOMAIN L : L[i].type = "UtteranceEnd"}

\* the last boundary before place i of L (0: none)
PrevBoundary(L, i) ==
  LET before == {j \in Boundaries(L) : j < i}
  IN IF before = {} THEN 0 ELSE CHOOSE j \in before : \A x \in before : x <= j

RECURSIVE Finals(_, _, _)
\* the final results among L[a..b], in order
Finals(L, a, b) ==
  IF a > b THEN <<>>
  ELSE (IF L[a].type = "Results" /\ L[a].is_final THEN <<L[a].transcript>> ELSE <<>>)
       \o Finals(L, a + 1, b)

RECURSIVE JoinWords(_)
\* texts joined by single spaces
JoinWords(ts) ==
  IF ts = <<>> THEN <<>>
  ELSE IF Len(ts) = 1 THEN ts[1]
  ELSE ts[1] \o <<" ">> \o JoinWords(Tail(ts))

\* the text the claim expects for the boundary at place i of L
ExpectedText(L, i) == Strip(JoinWords(Finals(L, PrevBoundary(L, i) + 1, i - 1)))

\* the callbacks _listen has made for session s: those that started a turn and
\* those that returned at the guard
Callbacks(s) == Cardinality({k \in Cyc : cycles[k].s = s}) + sessions[s].ignored

\* C12 as stated: one callback per utterance-boundary signal read.
C12_OncePerBoundary ==
  \A s \in Sess : Callbacks(s) = Cardinality(Boundaries(sessions[s].log))

\* C12 amended: one callback per boundary whose final results, joined and
\* trimmed, are not empty, and none for the others; the text of a callback is
\* the final results read since the previous boundary, in order, trimmed;
\* interim results add nothing and no text is delivered twice.
C12_OncePerSpokenBoundary ==
  \A s \in Sess :
    LET L == sessions[s].log
        mine == {k \in Cyc : cycles[k].s = s}
    IN /\ Callbacks(s) =
            Cardinality({i \in Boundaries(L) : ExpectedText(L, i) # <<>>})
       /\ \A k \in mine :
            /\ cycles[k].at \in Boundaries(L)
            /\ cycles[k].text = ExpectedText(L, cycles[k].at)
       /\ \A j \in mine, k \in mine : j # k => cycles[j].at # cycles[k].at

\* C12 witness: a callback got "yes go" from two final results with an
\* interim result read between the previous boundary and its own.
C12_Witness ==
  \E k \in Cyc :
    LET L == sessions[cycles[k].s].log
    IN /\ cycles[k].text = T_YES \o <<" ">> \o T_GO
       /\ \E i \in PrevBoundary(L, cycles[k].at) + 1 .. cycles[k].at - 1 :
            L[i].type = "Results" /\ ~L[i].is_final

\* C13: a response turn whose model call failed has called the model twice and
\* end() has been entered (is_active is false).
C13_RetryOnceThenEnd ==
  \A k \in Cyc :
    (cycles[k].pc = "failed" /\ sessions[cycles[k].s].fault = "llm")
      => cycles[k].calls = 2 /\ ~sessions[cycles[k].s].is_active

\* C14: after a failure of the synthesizer or the recognizer, a session that is
\* still active has a step to take by itself, or its recognizer connection is
\* one on which the next media event raises (media_stream then ends it): it is
\* never left active with nothing that leads to Ended.
C14_FailureEndsSession ==
  \A s \in Sess :
    (sessions[s].fault \in {"stt_start", "stt_drop", "tts_connect", "tts_send"}
       /\ sessions[s].is_active /\ ~ENABLED Internal)
      => SendAudio(sessions[s].stt_ws) = "raises"

\* everything the call on connection c owns: the locals of its media_stream
\* task, its session, that session's synthesizers and response turns
ViewOf(c) ==
  [ handler |-> <<hpc[c], session[c], htts[c], raised[c], hsecond[c], tin[c],
                  nframes[c]>>,
    sess |-> [s \in {x \in Sess : sessions[x].conn = c} |-> sessions[s]],
    tts |-> [t \in {x \in Tts : sessions[ttss[x].s].conn = c} |-> ttss[t]],
    turns |-> [k \in {x \in Cyc : sessions[cycles[x].s].conn = c} |-> cycles[k]] ]

\* the step the handler of connection c takes when its await returns
HandlerStep(c) ==
  \/ HSttStarted(c) \/ HSpConnect(c) \/ HSpInit(c) \/ HSpSend(c)
  \/ HSpSettle(c) \/ HSpClose(c) \/ HEndStt(c) \/ HEndTts(c)

\* the step response turn k takes when its await returns
CycleStep(k) ==
  \/ CycleConnect(k) \/ CycleInit(k) \/ (\E r \in Replies : CycleStream(k, r))
  \/ CycleSettle(k) \/ CycleClose(k) \/ CycleGrace(k) \/ CycleEndStt(k)

\* C15: with two calls running, every step (the failures of a service and the
\* handling of them included) changes the state of at most one call: the
\* other call's is_active, is_speaking, history, connections, tasks and handler
\* are as before. And whatever has happened to the other call, a handler that
\* is inside start() or end() and a response turn that is under way have their
\* next step to take. What the calls share is the registry, which these steps
\* only read.
C15_ErrorsStayInTheirCall ==
  /\ [][ /\ Cardinality({c \in Conns : ViewOf(c)' # ViewOf(c)}) <= 1
         /\ pending_calls' = pending_calls ]_vars
  /\ [](\A c \in Conns :
          hpc[c] \notin {"recv", "closed"} => ENABLED HandlerStep(c))
  /\ [](\A k \in Cyc :
          cycles[k].pc \notin {"done", "failed", "cancelled"} => ENABLED CycleStep(k))

\* C15 witness: one call has failed and its handler has finished, the other
\* call is active, has had no failure and is in a response turn.
C15_Witness ==
  \E a \in Sess, k \in Cyc :
    /\ sessions[a].fault # "none"
    /\ hpc[sessions[a].conn] = "closed"
    /\ sessions[cycles[k].s].conn # sessions[a].conn
    /\ sessions[cycles[k].s].fault = "none"
    /\ sessions[cycles[k].s].is_active
    /\ cycles[k].pc = "stream"

\* an end() call on the session of response turn k has returned
EndReturned(k) == sessions[cycles[k].s].ended

\* response turn k had not returned when that end() call returned
Abandoned(k) == EndReturned(k) /\ cycles[k].pc # "done"

\* C21: a response turn that is in progress when end() is called is abandoned.
\* Once end() has returned, no step moves the turn on (its reply stays
\* unrecorded: the agent turn is appended in the step that sets the reply),
\* sends text to its synthesizer or raises an error in the media_stream
\* handler, and the turn's synthesizer has no receive task that could pass
\* audio to the transport.
C21_TurnAbandoned ==
  /\ [][ \A k \in Cyc :
           Abandoned(k) =>
             /\ cycles'[k] = cycles[k]
             /\ ttss'[cycles[k].tts].sent = ttss[cycles[k].tts].sent
             /\ raised'[sessions[cycles[k].s].conn] = raised[sessions[cycles[k].s].conn]
       ]_vars
  /\ [](\A k \in Cyc :
          EndReturned(k) =>
            ~(/\ ttss[cycles[k].tts].listen_task = "running"
              /\ ttss[cycles[k].tts].ws \in {"open", "closing"}))

\* C21 witness: a turn was cancelled by end() after its callee turn was
\* appended and while its synthesizer was receiving, and end() has returned.
C21_Witness ==
  \E k \in Cyc :
    /\ Abandoned(k)
    /\ cycles[k].pc = "cancelled"
    /\ cycles[k].turn # 0
    /\ ttss[cycles[k].tts].listen_task = "cancelled"

\* the model call of response turn k has returned its reply
Replied(k) == cycles[k].response # <<>>

\* C22: each successful stream_response call extends the history by exactly
\* the callee's utterance followed by one agent turn holding the reply the
\* call returns: the two turns lie next to each other where the call began.
\* (That the history only grows is not in question: every write is an append.)
C22_CallAppendsPair ==
  \A k \in Cyc :
    Replied(k) =>
      LET msgs == sessions[cycles[k].s].messages
          i == cycles[k].turn
      IN /\ i + 1 <= Len(msgs)
         /\ msgs[i] = [role |-> "user", content |-> cycles[k].text]
         /\ msgs[i + 1] = [role |-> "assistant", content |-> cycles[k].response]

\* the chunk at place i of what synthesizer t has read is malformed
Malformed(t, i) == ttss[t].chunks[i] % 2 # 0

\* C23: a synthesized audio chunk that is not a whole number of 16-bit frames
\* makes the conversion fail (it is not cut down to whole frames), only that
\* chunk is dropped and the session stays active: the synthesizer's receive
\* task has not ended with the error, so later chunks are still converted.
C23_MalformedChunkDropped ==
  \A t \in Tts :
    \A i \in DOMAIN ttss[t].chunks :
      Malformed(t, i) =>
        /\ ElevenlabsToTwilio(ttss[t].chunks[i]).raises
        /\ sessions[ttss[t].s].is_active
        /\ ttss[t].listen_task # "failed"

\* the place of the last of the first n registration calls that names id (0: none)
LastReg(script, n, id) ==
  LET mine == {i \in 1..n : script[i].id = id}
  IN IF mine = {} THEN 0 ELSE CHOOSE i \in mine : \A j \in mine : j <= i

\* C24: the registry holds, under every id, the specification of the newest
\* registration call that named it (a repeated id is replaced), and a lookup
\* returns that one; a registration call changes no entry under another id;
\* registering the same (id, spec) again leaves the registry as it was.
C24_NewestRegistrationWins ==
  /\ [](\A id \in RegIdsReg :
          LET i == LastReg(lim.script, nregs, id)
          IN IF i = 0 THEN id \notin DOMAIN pending_calls
             ELSE id \in DOMAIN pending_calls /\ pending_calls[id] = lim.script[i].spec)
  /\ [](\A s \in Sess :
          sessions[s].spec_id # "" =>
            /\ LastReg(lim.script, sessions[s].reg, sessions[s].spec_id) # 0
            /\ sessions[s].call_spec =
                 lim.script[LastReg(lim.script, sessions[s].reg, sessions[s].spec_id)].spec)
  /\ [][ nregs' = nregs + 1 =>
           /\ \A o \in DOMAIN pending_calls \ {lim.script[nregs + 1].id} :
                o \in DOMAIN pending_calls' /\ pending_calls'[o] = pending_calls[o]
           /\ (nregs >= 1 /\ lim.script[nregs + 1] = lim.script[nregs])
                => pending_calls' = pending_calls ]_vars

\* C24 witness: an id was registered, registered again with another
\* specification, and then looked up by a start event.
C24_Witness ==
  \E s \in Sess :
    /\ sessions[s].spec_id # ""
    /\ \E i \in 1..sessions[s].reg, j \in 1..sessions[s].reg :
         /\ i < j
         /\ lim.script[i].id = sessions[s].spec_id
         /\ lim.script[j].id = sessions[s].spec_id
         /\ lim.script[i].spec # lim.script[j].spec

\* the boundary marks of the claim
Marks == {".", "!", "?", ",", ";"}

\* text has a boundary mark among its first n characters
MarkWithin(text, n) == \E i \in 1..n : text[i] \in Marks

\* text without its spaces
RECURSIVE Unspaced(_)
Unspaced(text) ==
  IF text = <<>> THEN <<>>
  ELSE (IF Head(text) = " " THEN <<>> ELSE <<Head(text)>>) \o Unspaced(Tail(text))

RECURSIVE Joined(_)
\* texts one after the other
Joined(ts) == IF ts = <<>> THEN <<>> ELSE Head(ts) \o Joined(Tail(ts))

\* C25: the texts a finished response turn passed to on_sentence: each but a
\* last remainder ends with a boundary mark and holds no other mark before
\* it; a last one that does not end with a mark holds none; none is blank;
\* together, in order, they are the reply but for spaces at their edges.
C25_ChunksAtEachMark ==
  \A k \in Cyc :
    cycles[k].pc \in {"settle", "close", "done"} =>
      LET out == ttss[cycles[k].tts].sent
      IN /\ \A i \in DOMAIN out :
              /\ out[i] # <<>>
              /\ ~MarkWithin(out[i], Len(out[i]) - 1)
              /\ (i < Len(out) => out[i][Len(out[i])] \in Marks)
         /\ Unspaced(Joined(out)) = Unspaced(cycles[k].response)

\* start() of the session of connection c has returned
StartReturned(c) ==
  /\ session[c] # 0
  /\ htts[c] # 0
  /\ ttss[htts[c]].s = session[c]
  /\ hpc[c] \in {"recv", "end_stt", "end_tts", "closed"}
  /\ raised[c] \notin {"KeyError", "IndexError"}

\* C26: no text goes to a synthesizer of a session before its recognizer was
\* started; when start() has returned, the opening line was sent to its
\* synthesizer and that synthesizer is closed; and the history begins with
\* the opening line as an agent turn, before any callee turn.
C26_StartOrder ==
  /\ \A t \in Tts : ttss[t].sent # <<>> => sessions[ttss[t].s].stt_ws # "none"
  /\ \A c \in Conns :
       StartReturned(c) =>
         /\ ttss[htts[c]].sent = <<OpeningOf(sessions[session[c]].call_spec)>>
         /\ ttss[htts[c]].ws = "closed"
  /\ \A s \in Sess :
       sessions[s].messages # <<>> =>
         sessions[s].messages[1] =
           [role |-> "assistant", content |-> OpeningOf(sessions[s].call_spec)]

\* the five fields of a CallSpecification
SpecFields == {"action", "context", "callee_name", "agent_name", "organization"}

\* C27: for every specification with the five fields, start() speaks the
\* opening line built from its first name, agent name and organization: once
\* the recognizer is started no error of get_opening has ended the call, and
\* when start() has returned that line is what the synthesizer was sent.
C27_OpeningSpokenForEverySpec ==
  \A c \in Conns :
    (session[c] # 0 /\ DOMAIN sessions[session[c]].call_spec = SpecFields) =>
      /\ raised[c] # "IndexError"
      /\ StartReturned(c) =>
           ttss[htts[c]].sent = <<OpeningOf(sessions[session[c]].call_spec)>>

\* a response turn of session s is under way (it has neither returned, nor
\* been cancelled, nor stopped on an error)
TurnUnderWay(s) ==
  \E k \in Cyc : cycles[k].s = s /\ cycles[k].pc \notin {"done", "cancelled", "failed"}

\* C28: is_speaking is false whenever neither the opening line nor a response
\* turn of the session is in progress, also after a turn or an opening line
\* that stopped on an error.
C28_SpeakingOnlyInTurn ==
  \A s \in Sess :
    (~OpeningInProgress(sessions[s].conn) /\ ~TurnUnderWay(s))
      => ~sessions[s].is_speaking

\* the model call of response turn k has failed
ModelFailed(k) == cycles[k].pc = "failed" /\ sessions[cycles[k].s].fault = "llm"

\* C29: after a failed model call the history is as before the call: the
\* callee turn the call appended (at place cycles[k].turn) is not left in it.
C29_FailedCallLeavesHistory ==
  \A k \in Cyc :
    ModelFailed(k) =>
      LET msgs == sessions[cycles[k].s].messages
      IN ~(/\ cycles[k].turn \in DOMAIN msgs
           /\ msgs[cycles[k].turn] = [role |-> "user", content |-> cycles[k].text])

\* C30: the history of a session alternates roles and begins with the agent:
\* the first turn is an agent turn and no two neighbouring turns have the
\* same role.
C30_RolesAlternate ==
  \A s \in Sess :
    LET msgs == sessions[s].messages
    IN /\ (msgs # <<>> => msgs[1].role = "assistant")
       /\ \A i \in 1..(Len(msgs) - 1) : msgs[i].role # msgs[i + 1].role

\* the media_stream handler of connection c has returned
HandlerTerminated(c) == hpc[c] = "closed"

\* close() has been called on the session's recognizer connection, or the
\* connection was never opened
RecognizerShut(s) == sessions[s].stt_ws # "open"

\* C31: once the media-stream handler has terminated (stop event, remote
\* disconnect or an exception), every CallSession it created has is_active
\* false and its recognizer connection closed.
C31_HandlerEndsSessions ==
  \A c \in Conns : \A s \in Sess :
    (HandlerTerminated(c) /\ sessions[s].conn = c) =>
      (~sessions[s].is_active /\ RecognizerShut(s))

\* no final result with text was read between the previous boundary and place i of L
NothingAccumulated(L, i) ==
  \A j \in (PrevBoundary(L, i) + 1)..(i - 1) :
    ~(L[j].type = "Results" /\ L[j].is_final /\ L[j].transcript # <<>>)

\* _listen of session s reads an utterance boundary
ReadsBoundary(s) ==
  /\ Len(sessions'[s].log) = Len(sessions[s].log) + 1
  /\ sessions'[s].log[Len(sessions'[s].log)].type = "UtteranceEnd"

\* C32: the utterance callback is never invoked with empty text (the text of
\* every response turn holds a character that is not whitespace), and reading
\* an utterance boundary when no final result has accumulated since the
\* previous boundary makes no callback and starts no response turn.
C32_NoEmptyCallback ==
  /\ [](\A k \in Cyc : cycles[k].text # <<>> /\ Strip(cycles[k].text) = cycles[k].text)
  /\ [][\A s \in Sess :
          (s \in DOMAIN sessions' /\ ReadsBoundary(s)
             /\ NothingAccumulated(sessions'[s].log, Len(sessions'[s].log)))
          => (cycles' = cycles /\ ttss' = ttss /\ Callbacks(s)' = Callbacks(s)
                /\ sessions'[s].is_speaking = sessions[s].is_speaking)]_vars

\* C32 witness: a boundary was read after an interim result only and no turn
\* belongs to it, while another boundary of the same session started a turn.
C32_Witness ==
  \E s \in Sess :
    LET L == sessions[s].log
    IN \E i \in Boundaries(L) :
         /\ NothingAccumulated(L, i)
         /\ \E j \in (PrevBoundary(L, i) + 1)..(i - 1) : L[j].type = "Results"
         /\ \A k \in Cyc : cycles[k].s = s => cycles[k].at # i
         /\ \E k \in Cyc : cycles[k].s = s /\ cycles[k].at < i

\* the people of the organization
People == PersonIds(departments)

\* C33: in the organization editor, every connection's from and to ids are
\* ids of people who are in some department.
C33_ConnectionsBetweenPeople ==
  \A i \in DOMAIN connections :
    connections[i].from \in People /\ connections[i].to \in People

\* C33 witness: of the loaded department's people 2 and 3, person 2 is gone,
\* person 4 has joined, and the one connection left runs between the two
\* people who remain.
C33_Witness ==
  /\ departments = <<[id |-> 1, people |-> <<3, 4>>]>>
  /\ connections = <<[from |-> 3, to |-> 4]>>

\* C34: whenever the upload modal's step is "results", no uploaded file has
\* status "pending" or "processing".
C34_ResultsOnlyWhenDone == step = "results" => ~HasActive(uploadedFiles)

====
